---- MODULE Spec2Model ----
(***************************************************************************)
(* The task-orchestration engine of the langgraph_agents packages:         *)
(*   - TaskDecomposerAgent  (agents/task_decomposer.py)                    *)
(*   - BaseAgent / AgentExecutor  (agents/base_agent.py)                   *)
(*   - StateManager  (state/manager.py)                                    *)
(*   - AgenticWorkflow  (workflows/graph_definition.py)                    *)
(* A task id is the string "<service>_<n>" that IntentRouterAgent builds;  *)
(* it is modelled as the pair <<service, n>>.                              *)
(***************************************************************************)
EXTENDS Integers, Sequences, FiniteSets, TLC

VARIABLES
    intents,            \* WorkflowState.intents
    dependency_graph,   \* context["dependency_graph"]: ordered items <<task_id, deps>>
    execution_plan,     \* context["execution_plan"]
    parallel_groups,    \* context["parallel_groups"]
    current_step,       \* WorkflowState.current_step
    max_retries,        \* BaseAgent.max_retries of the registered executors
    runs,               \* the execute_agent calls under way: one record per call
    history,            \* what the executor did on each attempt of the call under way
    calls,              \* number of calls the callers have made so far
    agent_metrics,      \* SystemState.agent_metrics
    tasks,              \* the batch given to execute_parallel
    semaphore,          \* value of the asyncio.Semaphore of the execute_parallel call
    processed_results,  \* what execute_parallel returned
    pc,                 \* where the caller of execute_parallel stands
    task_results,       \* WorkflowState.task_results
    group_idx,          \* loop index of _parallel_execution_node
    variant,            \* which state/manager.py: "integrated" (007-04) or "memoonly" (007-05)
    now,                \* datetime.now(), in hours
    active_sessions,    \* SystemState.active_sessions
    _cleanup_task,      \* StateManager._cleanup_task: 0 for None, else an index of cleanup_tasks
    cleanup_tasks,      \* the asyncio tasks running _periodic_cleanup, in order of creation
    stop_awaits,        \* the task a stop() call is awaiting, 0 when no stop() is under way
    stop_returned,      \* a stop() call has returned and start() was not called since
    swept_after_stop,   \* a sweep ran while stop_returned
    last_call,          \* the last store call: its name, session_id and return value
    graph_node,         \* the node of the workflow graph that runs or is to run next
    path,               \* the nodes the run has entered so far, in order
    retry_count,        \* context["retry_count"]
    failed_tasks,       \* context["failed_tasks"]
    final_result,       \* context["final_result"]
    report,             \* the figures of the completion summary the notification sends
    concurrent_call,    \* the locals of a second execute_parallel call under way at the same time
    recovery_strategy   \* context["recovery_strategy"]

dvars == <<intents, dependency_graph, execution_plan, parallel_groups, current_step>>

rvars == <<max_retries, runs, history, calls, agent_metrics>>

pvars == <<tasks, semaphore, processed_results, pc>>

wvars == <<task_results, group_idx>>

svars == <<variant, now, active_sessions, _cleanup_task, cleanup_tasks, stop_awaits,
           stop_returned, swept_after_stop, last_call>>

gvars == <<graph_node, path, retry_count, failed_tasks, final_result, report,
           recovery_strategy>>

cvars == <<concurrent_call>>

vars == <<dvars, rvars, pvars, wvars, svars, gvars, cvars>>

----------------------------------------------------------------------------
(* Bounds of the explored inputs *)

MaxIntents == 4
MaxRetriesBound == 3
MaxCalls == 2
MaxParTasks == 6
MaxParRetries == 1
MaxParFaults == 3
MaxSessionIntents == 2
MaxSessions == 2
MaxStarts == 2
MaxMetricsUpdates == 1
MaxClock == 25

----------------------------------------------------------------------------
(* state/models.py *)

TaskType == {"notion", "calendar", "gmail", "discord"}

Priority == {"low", "medium", "high", "urgent"}

\* Python compares the task-id strings character by character; the service
\* names differ before the "_" separator, so their alphabetical rank decides.
ServiceRank(s) ==
    CASE s = "calendar" -> 1
      [] s = "discord"  -> 2
      [] s = "gmail"    -> 3
      [] s = "notion"   -> 4
      [] OTHER          -> 5

\* str.__lt__ on "<service>_<n>"; n is a single decimal digit in every
\* session explored here, so the digit order is the numeric order.
StrLess(a, b) ==
    \/ ServiceRank(a[1]) < ServiceRank(b[1])
    \/ ServiceRank(a[1]) = ServiceRank(b[1]) /\ a[2] < b[2]

\* tuple.__lt__ on (priority_value, task_id)
TupleLess(x, y) ==
    \/ x[1] < y[1]
    \/ x[1] = y[1] /\ StrLess(x[2], y[2])

\* IntentRouterAgent._parse_intents: the i-th intent gets task_id "<type>_<i>"
MakeTaskId(type, i) == <<type, i>>

----------------------------------------------------------------------------
(* agents/task_decomposer.py *)

GraphKeys(graph) == {graph[i][1] : i \in 1..Len(graph)}

\* graph.get(node, [])
GraphGet(graph, node) ==
    IF node \in GraphKeys(graph)
    THEN (CHOOSE it \in {graph[i] : i \in 1..Len(graph)} : it[1] = node)[2]
    ELSE <<>>

\* graph[task_id] = deps on an insertion-ordered dict
GraphSet(graph, task_id, deps) ==
    IF task_id \in GraphKeys(graph)
    THEN [i \in 1..Len(graph) |->
            IF graph[i][1] = task_id THEN <<task_id, deps>> ELSE graph[i]]
    ELSE Append(graph, <<task_id, deps>>)

RECURSIVE Dfs(_, _, _, _), DfsNeighbors(_, _, _, _, _)

\* the loop over graph.get(node, []) inside dfs
DfsNeighbors(graph, node, nbrs, visited, rec_stack) ==
    IF nbrs = <<>>
    THEN [found |-> FALSE, visited |-> visited, rec_stack |-> rec_stack \ {node}]
    ELSE LET neighbor == Head(nbrs) IN
         IF neighbor \notin visited
         THEN LET r == Dfs(graph, neighbor, visited, rec_stack) IN
              IF r.found THEN r
              ELSE DfsNeighbors(graph, node, Tail(nbrs), r.visited, r.rec_stack)
         ELSE IF neighbor \in rec_stack
              THEN [found |-> TRUE, visited |-> visited, rec_stack |-> rec_stack]
              ELSE DfsNeighbors(graph, node, Tail(nbrs), visited, rec_stack)

Dfs(graph, node, visited, rec_stack) ==
    DfsNeighbors(graph, node, GraphGet(graph, node),
                 visited \cup {node}, rec_stack \cup {node})

RECURSIVE HasCircularFrom(_, _, _)

\* the loop over the roots; every root starts with a fresh rec_stack
HasCircularFrom(graph, i, visited) ==
    IF i > Len(graph) THEN FALSE
    ELSE IF graph[i][1] \in visited THEN HasCircularFrom(graph, i + 1, visited)
    ELSE LET r == Dfs(graph, graph[i][1], visited, {}) IN
         IF r.found THEN TRUE ELSE HasCircularFrom(graph, i + 1, r.visited)

\* the search started from the first key only
_has_circular_dependency_first_root(graph) ==
    Len(graph) > 0 /\ Dfs(graph, graph[1][1], {}, {}).found

_has_circular_dependency(graph) == HasCircularFrom(graph, 1, {})

_resolve_circular_dependency(graph) ==
    [i \in 1..Len(graph) |->
        <<graph[i][1], SelectSeq(graph[i][2], LAMBDA dep : dep \in GraphKeys(graph))>>]

RECURSIVE RawGraph(_, _, _)

RawGraph(its, i, graph) ==
    IF i > Len(its) THEN graph
    ELSE RawGraph(its, i + 1, GraphSet(graph, its[i].task_id, its[i].dependencies))

_build_dependency_graph(its) ==
    LET graph == RawGraph(its, 1, <<>>) IN
    IF _has_circular_dependency(graph)
    THEN _resolve_circular_dependency(graph)
    ELSE graph

\* intent_map.get(task_id) followed by _get_priority_value
_get_priority_value(its, task_id) ==
    LET found == {i \in 1..Len(its) : its[i].task_id = task_id} IN
    IF found = {} THEN 2
    ELSE LET p == its[CHOOSE i \in found : \A j \in found : j <= i].priority IN
         CASE p = "urgent" -> 0
           [] p = "high"   -> 1
           [] p = "medium" -> 2
           [] p = "low"    -> 3
           [] OTHER        -> 2

\* list.sort() on the queue of (priority_value, task_id)
SortQueue(queue) == SortSeq(queue, TupleLess)

\* the in-degree left at zero for every task
InitialInDegreeNotCounted(graph) == [k \in GraphKeys(graph) |-> 0]

\* occurrences of in-graph dependencies, counted with multiplicity
InitialInDegree(graph) ==
    [k \in GraphKeys(graph) |->
        Len(SelectSeq(GraphGet(graph, k), LAMBDA dep : dep \in GraphKeys(graph)))]

RECURSIVE SeedQueue(_, _, _, _, _)

SeedQueue(graph, its, in_degree, i, queue) ==
    IF i > Len(graph) THEN queue
    ELSE LET t == graph[i][1] IN
         SeedQueue(graph, its, in_degree, i + 1,
                   IF in_degree[t] = 0
                   THEN Append(queue, <<_get_priority_value(its, t), t>>)
                   ELSE queue)

InSeq(x, s) == \E i \in 1..Len(s) : s[i] = x

RECURSIVE Relax(_, _, _, _, _, _)

\* the for loop that lowers the in-degree of the tasks depending on current_task
Relax(graph, its, current_task, i, in_degree, queue) ==
    IF i > Len(graph) THEN [in_degree |-> in_degree, queue |-> queue]
    ELSE LET t == graph[i][1] IN
         IF InSeq(current_task, graph[i][2])
         THEN LET deg == [in_degree EXCEPT ![t] = @ - 1] IN
              Relax(graph, its, current_task, i + 1, deg,
                    IF deg[t] = 0
                    THEN SortQueue(Append(queue, <<_get_priority_value(its, t), t>>))
                    ELSE queue)
         ELSE Relax(graph, its, current_task, i + 1, in_degree, queue)

RECURSIVE PlanLoop(_, _, _, _, _)

\* while queue: pop(0), append, relax
PlanLoop(graph, its, queue, in_degree, execution_order) ==
    IF queue = <<>> THEN execution_order
    ELSE LET current_task == Head(queue)[2]
             r == Relax(graph, its, current_task, 1, in_degree, Tail(queue))
         IN PlanLoop(graph, its, r.queue, r.in_degree,
                     Append(execution_order, current_task))

_create_execution_plan(graph, its) ==
    LET in_degree == InitialInDegree(graph) IN
    PlanLoop(graph, its,
             SortQueue(SeedQueue(graph, its, in_degree, 1, <<>>)),
             in_degree, <<>>)

safe_combinations == {{"gmail", "calendar"}, {"notion", "discord"}, {"gmail", "discord"}}

\* the conflict test taken for the membership test alone
_has_conflict_membership_only(task1_id, task2_id) ==
    {task1_id[1], task2_id[1]} \in safe_combinations

_has_conflict(task1_id, task2_id) ==
    LET task1_service == task1_id[1]
        task2_service == task2_id[1]
        service_pair == {task1_service, task2_service}
    IN service_pair \notin safe_combinations /\ task1_service = task2_service

_get_agent_name(task_id) ==
    LET service == task_id[1] IN
    CASE service = "notion"   -> "notion_agent"
      [] service = "calendar" -> "calendar_agent"
      [] service = "gmail"    -> "gmail_agent"
      [] service = "discord"  -> "discord_agent"
      [] OTHER                -> "unknown_agent"

MaxGroupSize == 3

RECURSIVE GroupLoop(_, _, _, _)

GroupLoop(plan, i, groups, current_group) ==
    IF i > Len(plan)
    THEN IF current_group # <<>> THEN Append(groups, current_group) ELSE groups
    ELSE LET task_id == plan[i]
             can_run_parallel ==
                 \A k \in 1..Len(current_group) :
                     ~_has_conflict(task_id, current_group[k].task_id)
             entry == [task_id |-> task_id, agent |-> _get_agent_name(task_id)]
         IN IF can_run_parallel /\ Len(current_group) < MaxGroupSize
            THEN GroupLoop(plan, i + 1, groups, Append(current_group, entry))
            ELSE GroupLoop(plan, i + 1,
                           IF current_group # <<>>
                           THEN Append(groups, current_group) ELSE groups,
                           <<entry>>)

\* the loop entered at the second task of the plan
_create_parallel_groups_from_second(plan) == GroupLoop(plan, 2, <<>>, <<>>)

_create_parallel_groups(plan) == GroupLoop(plan, 1, <<>>, <<>>)

----------------------------------------------------------------------------
(* agents/base_agent.py: BaseAgent and AgentExecutor *)

DefaultMaxRetries == 3

\* the executors AgenticBot.setup_agents registers
RegisteredAgents ==
    {"intent_router", "task_decomposer", "self_reflection", "notion_agent", "discord_agent"}

TaskStatus == {"pending", "in_progress", "completed", "failed", "cancelled"}

\* an error string: a fixed prefix the runtime puts in front, and the message
PlainError(msg) == [prefix |-> "", msg |-> msg]

NoError == PlainError("None")

NoResult == [task_id |-> <<"", 0>>, status |-> "none", error |-> NoError, retry_count |-> 0]

\* ExecutionResult(task_id=..., status=FAILED, error=f"Agent {agent_name} not found")
AgentNotFound(task_id, agent_name) ==
    [task_id |-> task_id, status |-> "failed",
     error |-> [prefix |-> "Agent not found", msg |-> agent_name], retry_count |-> 0]

\* ExecutionResult(..., error=f"Max retries exceeded. Last error: {last_error}", retry_count=max_retries)
MaxRetriesExceeded(task_id, last_error, mr) ==
    [task_id |-> task_id, status |-> "failed",
     error |-> [prefix |-> "Max retries exceeded. Last error: ", msg |-> last_error.msg],
     retry_count |-> mr]

RECURSIVE Pow2(_)

\* 2 ** attempt
Pow2(n) == IF n = 0 THEN 1 ELSE 2 * Pow2(n - 1)

IdleRun ==
    [pc |-> "idle", task_id |-> <<"", 0>>, agent |-> "", attempt |-> 0,
     last_error |-> NoError, invocations |-> 0, waits |-> <<>>, result |-> NoResult]

\* the registry lookup left out: every name is run
StartRunWithoutLookup(task) ==
    [IdleRun EXCEPT !.pc = "attempting", !.task_id = task.task_id,
                    !.agent = task.agent, !.invocations = 1]

\* execute_agent up to the first await of the executor: an unknown name is
\* answered at once, a known one enters attempt 0 of _execute_with_retry
StartRun(task) ==
    IF task.agent \notin RegisteredAgents
    THEN [IdleRun EXCEPT !.pc = "done", !.task_id = task.task_id, !.agent = task.agent,
                         !.result = AgentNotFound(task.task_id, task.agent)]
    ELSE [IdleRun EXCEPT !.pc = "attempting", !.task_id = task.task_id,
                         !.agent = task.agent, !.invocations = 1]

\* the wait computed from the attempt that has just failed: 1, 2, 4
NextAttemptWaitFromOne(run, err) ==
    [run EXCEPT !.attempt = @ + 1, !.last_error = err, !.invocations = @ + 1,
                !.waits = Append(@, Pow2(run.attempt))]

\* the next iteration of the retry loop: sleep 2 ** attempt, then call the executor
NextAttempt(run, err) ==
    [run EXCEPT !.attempt = @ + 1, !.last_error = err, !.invocations = @ + 1,
                !.waits = Append(@, Pow2(run.attempt + 1))]

\* _execute_with_retry returns; its locals are gone
Finish(run, res) ==
    [run EXCEPT !.pc = "done", !.result = res, !.attempt = 0, !.last_error = NoError]

\* the error of an earlier attempt reported in place of the last one
RaisedOnLastAttemptStaleError(run, o, mr) ==
    Finish(run, MaxRetriesExceeded(run.task_id, run.last_error, mr))

\* the attempt ends with the executor raising on the last iteration
RaisedOnLastAttempt(run, o, mr) == Finish(run, MaxRetriesExceeded(run.task_id, o.error, mr))

\* the attempt ends with the executor returning a result that is neither completed
\* nor a failure with retries left
ReturnedFinal(run, o, mr) ==
    Finish(run, [task_id |-> run.task_id, status |-> o.status, error |-> o.error,
                 retry_count |-> run.attempt])

\* the retry test off by one: a failure of the last attempt is retried once more
AttemptEndsRetryOnceMore(run, o, mr) ==
    IF o.kind = "return"
    THEN IF o.status = "completed"
         THEN Finish(run, [task_id |-> run.task_id, status |-> "completed",
                           error |-> o.error, retry_count |-> run.attempt])
         ELSE IF o.status = "failed" /\ run.attempt <= mr
              THEN NextAttempt(run, o.error)
              ELSE ReturnedFinal(run, o, mr)
    ELSE IF run.attempt = mr
         THEN RaisedOnLastAttempt(run, o, mr)
         ELSE NextAttempt(run, o.error)

\* no except clause: an exception of the executor leaves the call
AttemptEndsUncaught(run, o, mr) ==
    IF o.kind = "return"
    THEN IF o.status = "completed"
         THEN Finish(run, [task_id |-> run.task_id, status |-> "completed",
                           error |-> o.error, retry_count |-> run.attempt])
         ELSE IF o.status = "failed" /\ run.attempt < mr
              THEN NextAttempt(run, o.error)
              ELSE ReturnedFinal(run, o, mr)
    ELSE [run EXCEPT !.pc = "raised"]

\* one iteration of the loop in _execute_with_retry, from the outcome o of
\* self.execute: [kind |-> "return", status, error] or [kind |-> "raise", error]
AttemptEnds(run, o, mr) ==
    IF o.kind = "return"
    THEN IF o.status = "completed"
         THEN Finish(run, [task_id |-> run.task_id, status |-> "completed",
                           error |-> o.error, retry_count |-> run.attempt])
         ELSE IF o.status = "failed" /\ run.attempt < mr
              THEN NextAttempt(run, o.error)
              ELSE ReturnedFinal(run, o, mr)
    ELSE IF run.attempt = mr
         THEN RaisedOnLastAttempt(run, o, mr)
         ELSE NextAttempt(run, o.error)

NoMetrics == [total_executions |-> 0, successful_executions |-> 0, failed_executions |-> 0]

\* StateManager.update_agent_metrics (the counters)
update_agent_metrics(metrics, agent_name, success) ==
    LET old == IF agent_name \in DOMAIN metrics THEN metrics[agent_name] ELSE NoMetrics
        new == [total_executions |-> old.total_executions + 1,
                successful_executions |-> old.successful_executions + (IF success THEN 1 ELSE 0),
                failed_executions |-> old.failed_executions + (IF success THEN 0 ELSE 1)]
    IN [n \in (DOMAIN metrics) \cup {agent_name} |-> IF n = agent_name THEN new ELSE metrics[n]]

\* the metrics updated after every attempt, an attempt that is retried counting
\* as a failure
MetricsAfterEveryAttempt(metrics, run) ==
    update_agent_metrics(metrics, run.agent,
                         run.pc = "done" /\ run.result.status = "completed")

\* run_with_metrics after _execute_with_retry returned
MetricsAfter(metrics, run) ==
    IF run.pc = "done"
    THEN update_agent_metrics(metrics, run.agent, run.result.status = "completed")
    ELSE metrics

\* what self.execute can do: return a result of any status, or raise
Outcomes(statuses, errors) ==
    {[kind |-> "return", status |-> "completed", error |-> NoError]}
        \cup {[kind |-> "return", status |-> st, error |-> PlainError(e)] :
                st \in statuses \ {"completed"}, e \in errors}
        \cup {[kind |-> "raise", status |-> "raised", error |-> PlainError(e)] : e \in errors}

----------------------------------------------------------------------------
(* AgentExecutor.execute_agent, one call after the other *)

ErrorMessages == {"timeout", "not found"}

\* the executor names a caller may pass
CallableAgents == {"notion_agent", "discord_agent", "calendar_agent", "unknown_agent"}

NoCall == [op |-> "none", session_id |-> 0, returned |-> "none", removed |-> {}]

\* a session store that was never started and holds no session
\* context.get("final_result", {}) before result_aggregation has run
NoFinalResult == [total_tasks |-> 0, completed_tasks |-> 0, failed_tasks |-> 0, built |-> FALSE]

NoReport == [total_tasks |-> 0, completed_tasks |-> 0, failed_tasks |-> 0,
             success_rate |-> 0, sent |-> FALSE]

\* no second execute_parallel call
IdleCall == [pc |-> "idle", tasks |-> <<>>, semaphore |-> 0, runs |-> <<>>,
             processed_results |-> <<>>]

NoConcurrentCall == concurrent_call = IdleCall

\* context.get("recovery_strategy") before error_handling has run
NoStrategy == [recoverable |-> FALSE, suggested_action |-> "none"]

\* no workflow run
NoGraph ==
    /\ graph_node = "none"
    /\ path = <<>>
    /\ retry_count = 0
    /\ failed_tasks = {}
    /\ final_result = NoFinalResult
    /\ report = NoReport
    /\ recovery_strategy = NoStrategy

NoStore ==
    /\ variant = "integrated"
    /\ now = 0
    /\ active_sessions = <<>>
    /\ _cleanup_task = 0
    /\ cleanup_tasks = <<>>
    /\ stop_awaits = 0
    /\ stop_returned = FALSE
    /\ swept_after_stop = FALSE
    /\ last_call = NoCall

\* no execute_parallel call and no workflow node under way
NoBatchCall ==
    /\ NoStore
    /\ NoGraph
    /\ NoConcurrentCall
    /\ tasks = <<>>
    /\ semaphore = 0
    /\ processed_results = <<>>
    /\ pc = "idle"
    /\ task_results = <<>>
    /\ group_idx = 0

InitRetry ==
    /\ NoBatchCall
    /\ intents = <<>>
    /\ dependency_graph = <<>>
    /\ execution_plan = <<>>
    /\ parallel_groups = <<>>
    /\ current_step = "start"
    /\ max_retries \in 0..MaxRetriesBound
    /\ runs = <<IdleRun>>
    /\ history = <<>>
    /\ calls = 0
    /\ agent_metrics = <<>>

\* await agent_executor.execute_agent(agent_name, state, task_params)
ExecuteAgent ==
    /\ runs[1].pc \in {"idle", "done"}
    /\ calls < MaxCalls
    /\ \E agent \in CallableAgents :
          runs' = <<StartRun([task_id |-> MakeTaskId("notion", calls + 1), agent |-> agent])>>
    /\ calls' = calls + 1
    /\ history' = <<>>
    /\ UNCHANGED <<dvars, max_retries, agent_metrics, pvars, wvars, svars, gvars, cvars>>

\* the executor's coroutine ends: the loop goes on or the call returns
ExecutorEnds ==
    /\ runs[1].pc = "attempting"
    /\ \E o \in Outcomes(TaskStatus, ErrorMessages) :
          /\ runs' = <<AttemptEnds(runs[1], o, max_retries)>>
          /\ history' = Append(history, o)
    /\ agent_metrics' = MetricsAfter(agent_metrics, runs'[1])
    /\ UNCHANGED <<dvars, max_retries, calls, pvars, wvars, svars, gvars, cvars>>

NextRetry == ExecuteAgent \/ ExecutorEnds

SpecRetry == InitRetry /\ [][NextRetry]_vars

----------------------------------------------------------------------------
(* AgentExecutor.execute_parallel *)

\* asyncio.Semaphore(5)
SemaphoreLimit == 5

\* every waiting task is let in, whatever the value of the semaphore
CanAcquireAlways(sem) == TRUE

\* Semaphore.acquire returns without waiting
CanAcquire(sem) == sem > 0

\* the tasks of the batch still waiting at "async with semaphore"
Waiting == {i \in DOMAIN runs : runs[i].pc = "idle"}

\* the tasks of the batch inside "async with semaphore"
InProgress == {i \in DOMAIN runs : runs[i].pc = "attempting"}

\* ExecutionResult(task_id=tasks[i].get("task_id"), status=FAILED, error=str(result))
ExceptionResult(task) ==
    [task_id |-> task.task_id, status |-> "failed",
     error |-> PlainError("exception"), retry_count |-> 0]

\* the entries whose run failed are left out of the list
ProcessResultsWithoutFailures(ts, rs) ==
    LET all == [i \in DOMAIN ts |-> rs[i].result]
        NotFailed(r) == r.status # "failed"
    IN SelectSeq(all, NotFailed)

\* the loop over the results of gather(..., return_exceptions=True)
ProcessResults(ts, rs) ==
    [i \in DOMAIN ts |-> IF rs[i].pc = "raised" THEN ExceptionResult(ts[i]) ELSE rs[i].result]

\* what the executors of a batch do on one attempt
ParOutcomes == Outcomes({"completed", "failed"}, {"timeout"})

\* batches of n entries on one executor, one entry at most naming unknown_agent
Batch(n, u) ==
    [i \in 1..n |-> [task_id |-> MakeTaskId("notion", i),
                     agent |-> IF i = u THEN "unknown_agent" ELSE "notion_agent"]]

InitPar ==
    /\ intents = <<>>
    /\ dependency_graph = <<>>
    /\ execution_plan = <<>>
    /\ parallel_groups = <<>>
    /\ current_step = "start"
    /\ max_retries \in 0..MaxParRetries
    /\ runs = <<>>
    /\ history = <<>>
    /\ calls = 0
    /\ agent_metrics = <<>>
    /\ \E n \in 0..MaxParTasks : \E u \in {0, 1, n} : tasks = Batch(n, u)
    /\ NoStore
    /\ NoGraph
    /\ NoConcurrentCall
    /\ semaphore = 0
    /\ processed_results = <<>>
    /\ pc = "idle"
    /\ task_results = <<>>
    /\ group_idx = 0

\* execute_parallel(tasks, state) up to the await of gather
ExecuteParallel ==
    /\ pc = "idle"
    /\ pc' = "gathering"
    /\ semaphore' = SemaphoreLimit
    /\ runs' = [i \in DOMAIN tasks |-> IdleRun]
    /\ UNCHANGED <<dvars, max_retries, history, calls, agent_metrics,
                   tasks, processed_results, wvars, svars, gvars, cvars>>

\* execute_with_semaphore(tasks[i]) enters "async with semaphore" and calls
\* execute_agent; waiters are woken in the order they arrived
Acquire(i) ==
    /\ pc = "gathering"
    /\ i \in Waiting
    /\ \A j \in Waiting : i <= j
    /\ CanAcquire(semaphore)
    /\ runs' = [runs EXCEPT ![i] = StartRun(tasks[i])]
    /\ semaphore' = IF runs'[i].pc = "attempting" THEN semaphore - 1 ELSE semaphore
    /\ UNCHANGED <<dvars, max_retries, history, calls, agent_metrics,
                   tasks, processed_results, pc, wvars, svars, gvars, cvars>>

\* the executor of tasks[i] ends an attempt; when the run is over the metrics
\* are updated and the semaphore is released
ParExecutorEnds(i) ==
    /\ pc = "gathering"
    /\ i \in InProgress
    /\ \E o \in ParOutcomes : runs' = [runs EXCEPT ![i] = AttemptEnds(runs[i], o, max_retries)]
    /\ agent_metrics' = MetricsAfter(agent_metrics, runs'[i])
    /\ semaphore' = IF runs'[i].pc = "attempting" THEN semaphore ELSE semaphore + 1
    /\ UNCHANGED <<dvars, max_retries, history, calls, tasks, processed_results, pc, wvars, svars, gvars, cvars>>

RECURSIVE FailedAttempts(_, _)

\* the attempts of rs[k], rs[k + 1], ... that ended in a failure or an exception
FailedAttempts(rs, k) ==
    IF k > Len(rs) THEN 0
    ELSE (IF rs[k].pc = "attempting" THEN rs[k].attempt
          ELSE IF rs[k].pc = "done"
               THEN rs[k].invocations - (IF rs[k].result.status = "completed" THEN 1 ELSE 0)
               ELSE 0)
         + FailedAttempts(rs, k + 1)

\* the same step in a batch whose executors fail MaxParFaults times at most
BatchExecutorEnds(i) ==
    /\ pc = "gathering"
    /\ i \in InProgress
    /\ \E o \in ParOutcomes :
          /\ o.status # "completed" => FailedAttempts(runs, 1) < MaxParFaults
          /\ runs' = [runs EXCEPT ![i] = AttemptEnds(runs[i], o, max_retries)]
    /\ agent_metrics' = MetricsAfter(agent_metrics, runs'[i])
    /\ semaphore' = IF runs'[i].pc = "attempting" THEN semaphore ELSE semaphore + 1
    /\ UNCHANGED <<dvars, max_retries, history, calls, tasks, processed_results, pc, wvars, svars, gvars, cvars>>

\* gather is done; execute_parallel returns processed_results
ExecuteParallelReturns ==
    /\ pc = "gathering"
    /\ Waiting = {}
    /\ InProgress = {}
    /\ processed_results' = ProcessResults(tasks, runs)
    /\ pc' = "returned"
    /\ UNCHANGED <<dvars, rvars, tasks, semaphore, wvars, svars, gvars, cvars>>

NextPar ==
    \/ ExecuteParallel
    \/ \E i \in DOMAIN runs : Acquire(i)
    \/ \E i \in DOMAIN runs : BatchExecutorEnds(i)
    \/ ExecuteParallelReturns

SpecPar == InitPar /\ [][NextPar]_vars

----------------------------------------------------------------------------
(* Two execute_parallel calls under way at once on the one agent_executor:
   the parallel nodes of two sessions whose messages are being processed at
   the same time, each passing one group of the decomposer *)

\* the tasks of the second call still waiting at "async with semaphore"
ConcurrentWaiting ==
    {i \in DOMAIN concurrent_call.runs : concurrent_call.runs[i].pc = "idle"}

\* the tasks of the second call inside "async with semaphore"
ConcurrentInProgress ==
    {i \in DOMAIN concurrent_call.runs : concurrent_call.runs[i].pc = "attempting"}

InitConcurrentCalls ==
    /\ intents = <<>>
    /\ dependency_graph = <<>>
    /\ execution_plan = <<>>
    /\ parallel_groups = <<>>
    /\ current_step = "start"
    /\ max_retries \in 0..MaxParRetries
    /\ runs = <<>>
    /\ history = <<>>
    /\ calls = 0
    /\ agent_metrics = <<>>
    /\ \E n \in 0..MaxGroupSize : tasks = Batch(n, 0)
    /\ \E n \in 0..MaxGroupSize : concurrent_call = [IdleCall EXCEPT !.tasks = Batch(n, 0)]
    /\ NoStore
    /\ NoGraph
    /\ semaphore = 0
    /\ processed_results = <<>>
    /\ pc = "idle"
    /\ task_results = <<>>
    /\ group_idx = 0

\* the second call up to the await of gather: it creates a semaphore of its own
ConcurrentExecuteParallel ==
    /\ concurrent_call.pc = "idle"
    /\ concurrent_call' = [concurrent_call EXCEPT
                              !.pc = "gathering",
                              !.semaphore = SemaphoreLimit,
                              !.runs = [i \in DOMAIN concurrent_call.tasks |-> IdleRun]]
    /\ UNCHANGED <<dvars, rvars, pvars, wvars, svars, gvars>>

\* execute_with_semaphore of the second call enters "async with semaphore"
ConcurrentAcquire(i) ==
    /\ concurrent_call.pc = "gathering"
    /\ i \in ConcurrentWaiting
    /\ \A j \in ConcurrentWaiting : i <= j
    /\ CanAcquire(concurrent_call.semaphore)
    /\ LET run == StartRun(concurrent_call.tasks[i]) IN
       concurrent_call' = [concurrent_call EXCEPT
                              !.runs[i] = run,
                              !.semaphore = IF run.pc = "attempting" THEN @ - 1 ELSE @]
    /\ UNCHANGED <<dvars, rvars, pvars, wvars, svars, gvars>>

\* an executor of the second call ends an attempt; the two batches together
\* fail MaxParFaults times at most
ConcurrentExecutorEnds(i) ==
    /\ concurrent_call.pc = "gathering"
    /\ i \in ConcurrentInProgress
    /\ \E o \in ParOutcomes :
          /\ o.status # "completed" =>
                FailedAttempts(runs, 1) + FailedAttempts(concurrent_call.runs, 1) < MaxParFaults
          /\ LET run == AttemptEnds(concurrent_call.runs[i], o, max_retries) IN
             /\ concurrent_call' = [concurrent_call EXCEPT
                                      !.runs[i] = run,
                                      !.semaphore = IF run.pc = "attempting" THEN @ ELSE @ + 1]
             /\ agent_metrics' = MetricsAfter(agent_metrics, run)
    /\ UNCHANGED <<dvars, max_retries, runs, history, calls, pvars, wvars, svars, gvars>>

\* gather of the second call is done; the call returns its processed_results
ConcurrentExecuteParallelReturns ==
    /\ concurrent_call.pc = "gathering"
    /\ ConcurrentWaiting = {}
    /\ ConcurrentInProgress = {}
    /\ concurrent_call' = [concurrent_call EXCEPT
                              !.pc = "returned",
                              !.processed_results =
                                  ProcessResults(concurrent_call.tasks, concurrent_call.runs)]
    /\ UNCHANGED <<dvars, rvars, pvars, wvars, svars, gvars>>

NextConcurrentCalls ==
    \/ ExecuteParallel
    \/ \E i \in DOMAIN runs : Acquire(i)
    \/ \E i \in DOMAIN runs : BatchExecutorEnds(i)
    \/ ExecuteParallelReturns
    \/ ConcurrentExecuteParallel
    \/ \E i \in DOMAIN concurrent_call.runs : ConcurrentAcquire(i)
    \/ \E i \in DOMAIN concurrent_call.runs : ConcurrentExecutorEnds(i)
    \/ ConcurrentExecuteParallelReturns

SpecConcurrentCalls == InitConcurrentCalls /\ [][NextConcurrentCalls]_vars

----------------------------------------------------------------------------
(* The sessions explored: what IntentRouterAgent._parse_intents can leave in
   state.intents.  A dependency is any string the classifier wrote: the id of
   another intent of the session, the intent's own id, or an id no intent has. *)

DanglingId == <<"calendar", 9>>

\* a dependency entry: <<index of the depending intent, index of the target>>,
\* target 0 standing for DanglingId; an intent may name itself
EdgePairs(n) == (1..n) \X (0..n)

PairLeq(p, q) == p[1] < q[1] \/ (p[1] = q[1] /\ p[2] <= q[2])

\* the dependency entries of a session: none, one, or two (the same entry may
\* be listed twice); each intent lists its entries in ascending order of target
EdgeLists(n) ==
    {<<>>} \cup {<<p>> : p \in EdgePairs(n)}
           \cup {<<e[1], e[2]>> : e \in {x \in EdgePairs(n) \X EdgePairs(n) : PairLeq(x[1], x[2])}}

\* the services of a session: the i-th intent is of the i-th service in turn, or a memo
RingType(i) == <<"notion", "calendar", "gmail", "discord">>[((i - 1) % 4) + 1]

TypeChoices(n) == {t \in [1..n -> TaskType] : \A i \in 1..n : t[i] \in {RingType(i), "notion"}}

\* the priorities of a session: the default everywhere, but for at most one intent
PriorityChoices(n) ==
    {p \in [1..n -> Priority] : Cardinality({i \in 1..n : p[i] # "medium"}) <= 1}

RECURSIVE DepsOf(_, _, _, _)

DepsOf(i, edges, types, j) ==
    IF j > Len(edges) THEN <<>>
    ELSE IF edges[j][1] = i
         THEN <<IF edges[j][2] = 0 THEN DanglingId
                ELSE MakeTaskId(types[edges[j][2]], edges[j][2])>>
              \o DepsOf(i, edges, types, j + 1)
         ELSE DepsOf(i, edges, types, j + 1)

MakeIntents(n, types, prios, edges) ==
    [i \in 1..n |->
        [type |-> types[i],
         priority |-> prios[i],
         dependencies |-> DepsOf(i, edges, types, 1),
         task_id |-> MakeTaskId(types[i], i)]]

----------------------------------------------------------------------------
(* TaskDecomposerAgent.execute on the intents of a session *)

InitDecomposer ==
    /\ NoBatchCall
    /\ \E n \in 0..MaxIntents :
         \E types \in TypeChoices(n), prios \in PriorityChoices(n),
            edges \in EdgeLists(n) :
              intents = MakeIntents(n, types, prios, edges)
    /\ dependency_graph = <<>>
    /\ execution_plan = <<>>
    /\ parallel_groups = <<>>
    /\ current_step = "intent_analyzed"
    /\ max_retries = DefaultMaxRetries
    /\ runs = <<>>
    /\ history = <<>>
    /\ calls = 0
    /\ agent_metrics = <<>>

TaskDecomposerExecute ==
    /\ current_step = "intent_analyzed"
    /\ LET graph == _build_dependency_graph(intents)
           plan == _create_execution_plan(graph, intents)
       IN /\ dependency_graph' = graph
          /\ execution_plan' = plan
          /\ parallel_groups' = _create_parallel_groups(plan)
    /\ current_step' = "decomposed"
    /\ UNCHANGED <<intents, rvars, pvars, wvars, svars, gvars, cvars>>

NextDecomposer == TaskDecomposerExecute

SpecDecomposer == InitDecomposer /\ [][NextDecomposer]_vars

RECURSIVE add_execution_results(_, _, _)

\* session.task_results[task_id] = result for results[k], results[k + 1], ...
add_execution_results(tr, results, k) ==
    IF k > Len(results) THEN tr
    ELSE add_execution_results(
            [id \in (DOMAIN tr) \cup {results[k].task_id} |->
                IF id = results[k].task_id THEN results[k] ELSE tr[id]],
            results, k + 1)

----------------------------------------------------------------------------
(* StateManager (state/manager.py), in its two variants *)

Variants == {"integrated", "memoonly"}

\* timedelta(hours=24) in 007-04, timedelta(hours=12) in 007-05
TTLHours(v) == IF v = "integrated" THEN 24 ELSE 12

\* WorkflowState(session_id=...) as create_session builds it
NewSession(sid, t) ==
    [session_id |-> sid, updated_at |-> t, current_step |-> "start", task_results |-> <<>>]

HasSession(sessions, sid) == sid \in DOMAIN sessions

create_session(sessions, sid, t) ==
    [k \in (DOMAIN sessions) \cup {sid} |-> IF k = sid THEN NewSession(sid, t) ELSE sessions[k]]

\* every keyword is taken into **kwargs, whatever its name
BindsAnyKeyword(kwargs) == TRUE

\* update_session(self, session_id, **kwargs): a keyword named session_id
\* collides with the parameter of that name and the call raises TypeError
\* before the body runs; any other keyword goes into **kwargs
Binds(kwargs) == "session_id" \notin DOMAIN kwargs

\* setattr for the keyword arguments that name a field, then updated_at = now
update_session(sessions, sid, kwargs, t) ==
    IF ~HasSession(sessions, sid) THEN sessions
    ELSE LET old == sessions[sid]
             set == [f \in DOMAIN old |-> IF f \in DOMAIN kwargs THEN kwargs[f] ELSE old[f]]
         IN [sessions EXCEPT ![sid] = [set EXCEPT !.updated_at = t]]

\* the result stored under a new session when the id is not in the store
add_execution_result_or_insert(sessions, sid, result, t) ==
    LET with == IF HasSession(sessions, sid) THEN sessions ELSE create_session(sessions, sid, t)
    IN [with EXCEPT ![sid] =
            [@ EXCEPT !.task_results = add_execution_results(@, <<result>>, 1),
                      !.updated_at = t]]

add_execution_result(sessions, sid, result, t) ==
    IF ~HasSession(sessions, sid) THEN sessions
    ELSE [sessions EXCEPT ![sid] =
            [@ EXCEPT !.task_results = add_execution_results(@, <<result>>, 1),
                      !.updated_at = t]]

close_session(sessions, sid) ==
    [k \in (DOMAIN sessions) \ {sid} |-> sessions[k]]

\* the sessions exactly TTL old taken as well: updated_at <= now - TTL
ExpiredOrAtCutoff(sessions, t, v) ==
    {sid \in DOMAIN sessions : sessions[sid].updated_at <= t - TTLHours(v)}

\* the sessions a sweep removes: updated_at < now - TTL
Expired(sessions, t, v) ==
    {sid \in DOMAIN sessions : sessions[sid].updated_at < t - TTLHours(v)}

_cleanup_old_sessions(sessions, t, v) ==
    [k \in (DOMAIN sessions) \ Expired(sessions, t, v) |-> sessions[k]]

\* the clock moves on by the time-to-live, or by an hour more than that
ClockSteps(v) == {TTLHours(v), TTLHours(v) + 1}

\* what callers write into a session
StoreResults ==
    {[task_id |-> MakeTaskId("notion", 1), status |-> "completed", error |-> NoError,
      retry_count |-> 0]}

\* the id of no session
NoSessionId == 0

StoreKwargs ==
    {[current_step |-> "executed"], [no_such_field |-> "x"], [session_id |-> NoSessionId]}

\* a store call as last_call keeps it: name, argument, return value, and the
\* sessions the call took out of the store
Call(op, sid, ret, removed) ==
    [op |-> op, session_id |-> sid, returned |-> ret, removed |-> removed]

Bool(b) == IF b THEN "True" ELSE "False"

\* nothing but the store exists
StoreOnly ==
    /\ intents = <<>>
    /\ dependency_graph = <<>>
    /\ execution_plan = <<>>
    /\ parallel_groups = <<>>
    /\ current_step = "start"
    /\ max_retries = DefaultMaxRetries
    /\ runs = <<>>
    /\ history = <<>>
    /\ calls = 0
    /\ agent_metrics = <<>>
    /\ tasks = <<>>
    /\ semaphore = 0
    /\ processed_results = <<>>
    /\ pc = "idle"
    /\ task_results = <<>>
    /\ group_idx = 0
    /\ variant \in Variants
    /\ now = 0
    /\ active_sessions = <<>>
    /\ stop_awaits = 0
    /\ stop_returned = FALSE
    /\ swept_after_stop = FALSE
    /\ last_call = NoCall
    /\ NoGraph
    /\ NoConcurrentCall

\* StateManager() as the module creates it
InitLifecycle ==
    /\ StoreOnly
    /\ _cleanup_task = 0
    /\ cleanup_tasks = <<>>

\* the store after on_ready has called start()
InitStore ==
    /\ StoreOnly
    /\ _cleanup_task = 1
    /\ cleanup_tasks = <<"sleeping">>

\* what a store call leaves alone besides the store
NotTheStore == <<dvars, max_retries, runs, history, pvars, wvars, variant, gvars, cvars>>

\* StateManager.start
Start ==
    /\ Len(cleanup_tasks) < MaxStarts
    /\ IF variant = "integrated" \/ _cleanup_task = 0
       THEN /\ cleanup_tasks' = Append(cleanup_tasks, "sleeping")
            /\ _cleanup_task' = Len(cleanup_tasks) + 1
       ELSE UNCHANGED <<cleanup_tasks, _cleanup_task>>
    /\ stop_returned' = FALSE
    /\ UNCHANGED <<NotTheStore, calls, agent_metrics, now, active_sessions, stop_awaits,
                   swept_after_stop, last_call>>

\* StateManager.stop up to "await self._cleanup_task"; with no task, or a task
\* that is over already, the call does not wait and returns
StopBegins ==
    /\ stop_awaits = 0
    /\ IF _cleanup_task = 0
       THEN /\ stop_returned' = TRUE
            /\ UNCHANGED <<cleanup_tasks, stop_awaits, _cleanup_task>>
       ELSE IF cleanup_tasks[_cleanup_task] = "done"
            THEN /\ stop_returned' = TRUE
                 /\ _cleanup_task' = IF variant = "memoonly" THEN 0 ELSE _cleanup_task
                 /\ UNCHANGED <<cleanup_tasks, stop_awaits>>
            ELSE /\ cleanup_tasks' = [cleanup_tasks EXCEPT ![_cleanup_task] = "cancelling"]
                 /\ stop_awaits' = _cleanup_task
                 /\ UNCHANGED <<stop_returned, _cleanup_task>>
    /\ UNCHANGED <<NotTheStore, calls, agent_metrics, now, active_sessions, swept_after_stop,
                   last_call>>

\* _periodic_cleanup gets the CancelledError at its sleep and ends
TaskExits(t) ==
    /\ cleanup_tasks[t] = "cancelling"
    /\ cleanup_tasks' = [cleanup_tasks EXCEPT ![t] = "done"]
    /\ UNCHANGED <<NotTheStore, calls, agent_metrics, now, active_sessions, _cleanup_task,
                   stop_awaits, stop_returned, swept_after_stop, last_call>>

\* the awaited task is over: StateManager.stop returns
StopReturns ==
    /\ stop_awaits # 0
    /\ cleanup_tasks[stop_awaits] = "done"
    /\ stop_awaits' = 0
    /\ _cleanup_task' = IF variant = "memoonly" THEN 0 ELSE _cleanup_task
    /\ stop_returned' = TRUE
    /\ UNCHANGED <<NotTheStore, calls, agent_metrics, now, active_sessions, cleanup_tasks,
                   swept_after_stop, last_call>>

\* the sleep of _periodic_cleanup task t is over: _cleanup_old_sessions
Sweep(t) ==
    /\ cleanup_tasks[t] = "sleeping"
    /\ active_sessions' = _cleanup_old_sessions(active_sessions, now, variant)
    /\ swept_after_stop' = (swept_after_stop \/ stop_returned)
    /\ last_call' = Call("_cleanup_old_sessions", 0, "None",
                         Expired(active_sessions, now, variant))
    /\ UNCHANGED <<NotTheStore, calls, agent_metrics, now, _cleanup_task, cleanup_tasks,
                   stop_awaits, stop_returned>>

\* time passes
Tick ==
    /\ \E d \in ClockSteps(variant) : now + d <= MaxClock /\ now' = now + d
    /\ UNCHANGED <<NotTheStore, calls, agent_metrics, active_sessions, _cleanup_task,
                   cleanup_tasks, stop_awaits, stop_returned, swept_after_stop, last_call>>

StoreUntouched == <<NotTheStore, calls, agent_metrics, now, _cleanup_task, cleanup_tasks,
                    stop_awaits, stop_returned, swept_after_stop>>

\* StateManager.create_session; an id not in the store stands for the fresh uuid4
CreateSession ==
    /\ \E sid \in (1..MaxSessions) \ DOMAIN active_sessions :
          /\ active_sessions' = create_session(active_sessions, sid, now)
          /\ last_call' = Call("create_session", sid, "session_id", {})
    /\ UNCHANGED StoreUntouched

\* StateManager.get_session
GetSession ==
    /\ \E sid \in 1..MaxSessions :
          last_call' = Call("get_session", sid,
                            IF HasSession(active_sessions, sid) THEN "session" ELSE "None", {})
    /\ UNCHANGED <<StoreUntouched, active_sessions>>

\* StateManager.update_session
UpdateSession ==
    /\ \E sid \in 1..MaxSessions, kwargs \in StoreKwargs :
          IF Binds(kwargs)
          THEN /\ active_sessions' = update_session(active_sessions, sid, kwargs, now)
               /\ last_call' = Call("update_session", sid,
                                    Bool(HasSession(active_sessions, sid)), {})
          ELSE /\ active_sessions' = active_sessions
               /\ last_call' = Call("update_session not entered", NoSessionId, "TypeError", {})
    /\ UNCHANGED StoreUntouched

\* StateManager.add_execution_result
AddExecutionResult ==
    /\ \E sid \in 1..MaxSessions, result \in StoreResults :
          /\ active_sessions' = add_execution_result(active_sessions, sid, result, now)
          /\ last_call' = Call("add_execution_result", sid,
                               Bool(HasSession(active_sessions, sid)), {})
    /\ UNCHANGED StoreUntouched

\* StateManager.close_session
CloseSession ==
    /\ \E sid \in 1..MaxSessions :
          /\ active_sessions' = close_session(active_sessions, sid)
          /\ last_call' = Call("close_session", sid, Bool(HasSession(active_sessions, sid)),
                               {sid} \cap DOMAIN active_sessions)
    /\ UNCHANGED StoreUntouched

\* StateManager.update_agent_metrics
UpdateAgentMetrics ==
    /\ calls < MaxMetricsUpdates
    /\ calls' = calls + 1
    /\ \E success \in BOOLEAN :
          agent_metrics' = update_agent_metrics(agent_metrics, "notion_agent", success)
    /\ last_call' = Call("update_agent_metrics", 0, "None", {})
    /\ UNCHANGED <<NotTheStore, now, active_sessions, _cleanup_task, cleanup_tasks,
                   stop_awaits, stop_returned, swept_after_stop>>

NextLifecycle ==
    \/ Start
    \/ StopBegins
    \/ \E t \in DOMAIN cleanup_tasks : TaskExits(t)
    \/ StopReturns
    \/ \E t \in DOMAIN cleanup_tasks : Sweep(t)
    \/ Tick
    \/ CreateSession

\* start, stop and the sweeps, over sessions that are created and then left alone
SpecLifecycle == InitLifecycle /\ [][NextLifecycle]_vars

NextStore ==
    \/ \E t \in DOMAIN cleanup_tasks : Sweep(t)
    \/ Tick
    \/ CreateSession
    \/ GetSession
    \/ UpdateSession
    \/ AddExecutionResult
    \/ CloseSession
    \/ UpdateAgentMetrics

\* the calls on the sessions and the metrics, with the sweeps of a started store
SpecStore == InitStore /\ [][NextStore]_vars

----------------------------------------------------------------------------
(* AgenticWorkflow (workflows/graph_definition.py), as process_message runs it *)

\* the keys under which the nodes store their own results in task_results
IntentAnalysisKey == <<"intent_analysis", 0>>

TaskDecompositionKey == <<"task_decomposition", 0>>

SelfReflectionKey == <<"self_reflection", 0>>

NotificationKey == <<"notification", 0>>

Completed(task_id) ==
    [task_id |-> task_id, status |-> "completed", error |-> NoError, retry_count |-> 0]

\* the result of a run whose executor returned FAILED on every attempt
Failed(task_id, mr) ==
    [task_id |-> task_id, status |-> "failed", error |-> PlainError("timeout"),
     retry_count |-> mr]

\* the id create_session has given to the session of the run
Sid == 1

_route_after_intent_analysis(its) ==
    IF Len(its) = 0 THEN "error"
    ELSE IF Len(its) = 1 /\ Len(its[1].dependencies) = 0 THEN "simple"
    ELSE "complex"

\* no results taken for no failure
_check_execution_results_empty_succeeds(tr) ==
    LET completed == Cardinality({id \in DOMAIN tr : tr[id].status = "completed"})
        total == Cardinality(DOMAIN tr)
    IN IF completed = total THEN "success"
       ELSE IF completed > 0 THEN "partial_failure"
       ELSE "complete_failure"

_check_execution_results(tr) ==
    IF DOMAIN tr = {} THEN "complete_failure"
    ELSE LET completed == Cardinality({id \in DOMAIN tr : tr[id].status = "completed"})
             total == Cardinality(DOMAIN tr)
         IN IF completed = total THEN "success"
            ELSE IF completed > 0 THEN "partial_failure"
            ELSE "complete_failure"

\* the edges with a partial failure accepted as it is
AfterExecutionAcceptingPartial(tr) ==
    IF _check_execution_results(tr) \in {"success", "partial_failure"}
    THEN "result_aggregation" ELSE "error_handling"

\* the conditional edges of parallel_execution and sequential_execution
AfterExecution(tr) ==
    IF _check_execution_results(tr) = "success" THEN "result_aggregation" ELSE "error_handling"

\* recoverable: len(failed_tasks) < len(state.task_results) // 2
_analyze_failures(tr, failed) ==
    [recoverable |-> Cardinality(failed) < Cardinality(DOMAIN tr) \div 2,
     suggested_action |-> IF Cardinality(failed) <= 2 THEN "retry" ELSE "manual_review"]

\* max_retries of _route_after_error_handling
WorkflowMaxRetries == 2

\* the retry test off by one: a third pass is granted
_route_after_error_handling_once_more(rc, failed, tr) ==
    IF rc <= WorkflowMaxRetries THEN "retry"
    ELSE IF Cardinality(failed) < Cardinality(DOMAIN tr) THEN "complete"
    ELSE "notify"

_route_after_error_handling(rc, failed, tr) ==
    IF rc < WorkflowMaxRetries THEN "retry"
    ELSE IF Cardinality(failed) < Cardinality(DOMAIN tr) THEN "complete"
    ELSE "notify"

\* the conditional edges of error_handling
AfterErrorHandling(rc, failed, tr) ==
    CASE _route_after_error_handling(rc, failed, tr) = "retry" -> "parallel_execution"
      [] _route_after_error_handling(rc, failed, tr) = "notify" -> "notification"
      [] OTHER -> "result_aggregation"

_get_agent_name_from_intent(intent) ==
    CASE intent.type = "notion"   -> "notion_agent"
      [] intent.type = "calendar" -> "calendar_agent"
      [] intent.type = "gmail"    -> "gmail_agent"
      [] intent.type = "discord"  -> "discord_agent"
      [] OTHER                    -> "unknown_agent"

\* the figures DiscordAgent._send_completion_summary puts in its message; the
\* success rate in whole percent
_send_completion_summary(summary, delivered) ==
    [total_tasks |-> summary.total_tasks,
     completed_tasks |-> summary.completed_tasks,
     failed_tasks |-> summary.failed_tasks,
     success_rate |-> IF summary.total_tasks > 0
                      THEN (summary.completed_tasks * 100) \div summary.total_tasks
                      ELSE 0,
     sent |-> delivered]

\* the services of a workflow session: notion and discord have an executor
SessionType(i) == <<"notion", "discord", "calendar">>[((i - 1) % 3) + 1]

SessionTypeChoices(n) ==
    {t \in [1..n -> TaskType] : \A i \in 1..n : t[i] \in {SessionType(i), "notion"}}

\* what intent_router can leave in state.intents: nothing, or intents of
\* default priority with one dependency entry at most, each of the service
\* of its place or of a service without executor
RouterIntents ==
    {<<>>} \cup
    UNION {{MakeIntents(n, types, [i \in 1..n |-> "medium"], edges) :
                types \in {t \in [1..n -> TaskType] :
                              \A i \in 1..n : t[i] \in {SessionType(i), "calendar"}},
                edges \in {<<>>} \cup {<<p>> : p \in EdgePairs(n)}} :
           n \in 1..MaxSessionIntents}

\* the session of a run is the object the store holds: what a node assigns
\* to state.current_step is seen through the store as long as it is there
SameObject(sessions, step) ==
    IF HasSession(sessions, Sid) THEN [sessions EXCEPT ![Sid].current_step = step]
    ELSE sessions

RECURSIVE WriteBack(_, _, _, _)

\* for result in results: await state_manager.add_execution_result(session_id, ...)
WriteBack(sessions, results, k, t) ==
    IF k > Len(results) THEN sessions
    ELSE WriteBack(add_execution_result(sessions, Sid, results[k], t), results, k + 1, t)

\* the results are dropped: the node only assigns state.current_step
AssignedOnly(results) ==
    /\ active_sessions' = SameObject(active_sessions, current_step')
    /\ UNCHANGED <<task_results, last_call>>

\* a node stores results and assigns state.current_step
Written(results) ==
    /\ active_sessions' = SameObject(WriteBack(active_sessions, results, 1, now), current_step')
    /\ task_results' = IF HasSession(active_sessions, Sid)
                       THEN add_execution_results(task_results, results, 1)
                       ELSE task_results
    /\ last_call' = IF Len(results) = 0 THEN last_call
                    ELSE Call("add_execution_result", Sid,
                              Bool(HasSession(active_sessions, Sid)), {})

\* a node assigns state.current_step and makes no store call
Assigned ==
    /\ active_sessions' = SameObject(active_sessions, current_step')
    /\ UNCHANGED <<task_results, last_call>>

\* the graph goes on to node n
Goto(n) ==
    /\ graph_node' = n
    /\ path' = Append(path, n)

StoreRuns == <<variant, now, _cleanup_task, cleanup_tasks, stop_awaits, stop_returned,
               swept_after_stop>>

\* process_message has created the session, fetched it and called graph.ainvoke
InitGraph ==
    /\ NoConcurrentCall
    /\ intents = <<>>
    /\ dependency_graph = <<>>
    /\ execution_plan = <<>>
    /\ parallel_groups = <<>>
    /\ current_step = "start"
    /\ max_retries = DefaultMaxRetries
    /\ runs = <<>>
    /\ history = <<>>
    /\ calls = 0
    /\ agent_metrics = <<>>
    /\ tasks = <<>>
    /\ semaphore = 0
    /\ processed_results = <<>>
    /\ pc = "idle"
    /\ task_results = <<>>
    /\ group_idx = 0
    /\ variant = "integrated"
    /\ now = 0
    /\ active_sessions = create_session(<<>>, Sid, 0)
    /\ _cleanup_task = 1
    /\ cleanup_tasks = <<"sleeping">>
    /\ stop_awaits = 0
    /\ stop_returned = FALSE
    /\ swept_after_stop = FALSE
    /\ last_call = Call("get_session", Sid, "session", {})
    /\ graph_node = "intent_analysis"
    /\ path = <<"intent_analysis">>
    /\ retry_count = 0
    /\ failed_tasks = {}
    /\ final_result = NoFinalResult
    /\ report = NoReport
    /\ recovery_strategy = NoStrategy

\* _intent_analysis_node: the router gives up, or completes and leaves its
\* intents in the state
IntentAnalysisNode ==
    /\ graph_node = "intent_analysis"
    /\ \/ /\ intents' = <<>>
          /\ current_step' = "error"
          /\ agent_metrics' = update_agent_metrics(agent_metrics, "intent_router", FALSE)
          /\ Written(<<Failed(IntentAnalysisKey, max_retries)>>)
       \/ /\ intents' \in RouterIntents
          /\ current_step' = "intent_analyzed"
          /\ agent_metrics' = update_agent_metrics(agent_metrics, "intent_router", TRUE)
          /\ Written(<<Completed(IntentAnalysisKey)>>)
    /\ Goto(CASE _route_after_intent_analysis(intents') = "simple" -> "sequential_execution"
              [] _route_after_intent_analysis(intents') = "complex" -> "task_decomposition"
              [] OTHER -> "error_handling")
    /\ UNCHANGED <<dependency_graph, execution_plan, parallel_groups, max_retries, runs,
                   history, calls, pvars, group_idx, StoreRuns, cvars, retry_count,
                   failed_tasks, recovery_strategy,
                   final_result, report>>

\* a session that intent_analysis has routed to task_decomposition
InitWorkflow ==
    /\ NoConcurrentCall
    /\ \E n \in 1..MaxSessionIntents :
         \E types \in SessionTypeChoices(n), prios \in PriorityChoices(n),
            edges \in EdgeLists(n) :
              intents = MakeIntents(n, types, prios, edges)
    /\ _route_after_intent_analysis(intents) = "complex"
    /\ dependency_graph = <<>>
    /\ execution_plan = <<>>
    /\ parallel_groups = <<>>
    /\ current_step = "intent_analyzed"
    /\ max_retries = DefaultMaxRetries
    /\ runs = <<>>
    /\ history = <<>>
    /\ calls = 0
    /\ agent_metrics = update_agent_metrics(<<>>, "intent_router", TRUE)
    /\ tasks = <<>>
    /\ semaphore = 0
    /\ processed_results = <<>>
    /\ pc = "idle"
    /\ task_results = add_execution_results(<<>>, <<Completed(IntentAnalysisKey)>>, 1)
    /\ group_idx = 0
    /\ variant = "integrated"
    /\ now = 0
    /\ active_sessions =
          SameObject(add_execution_result(create_session(<<>>, Sid, 0), Sid,
                                          Completed(IntentAnalysisKey), 0),
                     "intent_analyzed")
    /\ _cleanup_task = 1
    /\ cleanup_tasks = <<"sleeping">>
    /\ stop_awaits = 0
    /\ stop_returned = FALSE
    /\ swept_after_stop = FALSE
    /\ last_call = Call("add_execution_result", Sid, "True", {})
    /\ graph_node = "task_decomposition"
    /\ path = <<"intent_analysis", "task_decomposition">>
    /\ retry_count = 0
    /\ failed_tasks = {}
    /\ final_result = NoFinalResult
    /\ report = NoReport
    /\ recovery_strategy = NoStrategy

\* _task_decomposition_node
TaskDecompositionNode ==
    /\ graph_node = "task_decomposition"
    /\ dependency_graph' = _build_dependency_graph(intents)
    /\ execution_plan' = _create_execution_plan(dependency_graph', intents)
    /\ parallel_groups' = _create_parallel_groups(execution_plan')
    /\ current_step' = "decomposed"
    /\ agent_metrics' = update_agent_metrics(agent_metrics, "task_decomposer", TRUE)
    /\ Written(<<Completed(TaskDecompositionKey)>>)
    /\ Goto("parallel_execution")
    /\ UNCHANGED <<intents, max_retries, runs, history, calls, pvars, group_idx, StoreRuns, cvars,
                   retry_count, failed_tasks, recovery_strategy, final_result, report>>

\* _parallel_execution_node calls execute_parallel(group, state) for the next group
ExecuteGroup ==
    /\ graph_node = "parallel_execution"
    /\ pc = "idle"
    /\ group_idx < Len(parallel_groups)
    /\ tasks' = parallel_groups[group_idx + 1]
    /\ pc' = "gathering"
    /\ semaphore' = SemaphoreLimit
    /\ runs' = [i \in DOMAIN tasks' |-> IdleRun]
    /\ processed_results' = <<>>
    /\ UNCHANGED <<dvars, max_retries, history, calls, agent_metrics, wvars, svars, gvars, cvars>>

\* execute_parallel returns; the node stores the results of the group and goes
\* on to the next group, or leaves the loop after the last one
GroupReturns ==
    /\ graph_node = "parallel_execution"
    /\ pc = "gathering"
    /\ Waiting = {}
    /\ InProgress = {}
    /\ processed_results' = ProcessResults(tasks, runs)
    /\ pc' = "idle"
    /\ IF group_idx + 1 = Len(parallel_groups)
       THEN /\ current_step' = "executed"
            /\ group_idx' = 0
            /\ Written(processed_results')
            /\ Goto(AfterExecution(task_results'))
       ELSE /\ group_idx' = group_idx + 1
            /\ UNCHANGED <<current_step, graph_node, path>>
            /\ Written(processed_results')
    /\ UNCHANGED <<intents, dependency_graph, execution_plan, parallel_groups,
                   rvars, tasks, semaphore, StoreRuns, cvars, retry_count, failed_tasks,
                   recovery_strategy,
                   final_result, report>>

\* _parallel_execution_node with no group in the context
NoGroups ==
    /\ graph_node = "parallel_execution"
    /\ pc = "idle"
    /\ Len(parallel_groups) = 0
    /\ current_step' = "executed"
    /\ Assigned
    /\ Goto(AfterExecution(task_results))
    /\ UNCHANGED <<intents, dependency_graph, execution_plan, parallel_groups,
                   rvars, pvars, group_idx, StoreRuns, cvars, retry_count, failed_tasks,
                   recovery_strategy,
                   final_result, report>>

\* _sequential_execution_node calls execute_agent for the next intent
ExecuteIntent ==
    /\ graph_node = "sequential_execution"
    /\ pc = "idle"
    /\ group_idx < Len(intents)
    /\ LET intent == intents[group_idx + 1] IN
          tasks' = <<[task_id |-> intent.task_id,
                      agent |-> _get_agent_name_from_intent(intent)]>>
    /\ runs' = <<StartRun(tasks'[1])>>
    /\ pc' = "executing"
    /\ processed_results' = <<>>
    /\ UNCHANGED <<dvars, max_retries, history, calls, agent_metrics, semaphore,
                   wvars, svars, gvars, cvars>>

\* the executor of the intent ends an attempt
IntentExecutorEnds ==
    /\ graph_node = "sequential_execution"
    /\ pc = "executing"
    /\ runs[1].pc = "attempting"
    /\ \E o \in ParOutcomes : runs' = [runs EXCEPT ![1] = AttemptEnds(runs[1], o, max_retries)]
    /\ agent_metrics' = MetricsAfter(agent_metrics, runs'[1])
    /\ UNCHANGED <<dvars, max_retries, history, calls, pvars, wvars, svars, gvars, cvars>>

\* execute_agent has returned; the node stores the result and goes on to the
\* next intent, or leaves the loop after the last one
IntentReturns ==
    /\ graph_node = "sequential_execution"
    /\ pc = "executing"
    /\ runs[1].pc = "done"
    /\ pc' = "idle"
    /\ IF group_idx + 1 = Len(intents)
       THEN /\ current_step' = "executed"
            /\ group_idx' = 0
            /\ Written(<<runs[1].result>>)
            /\ Goto(AfterExecution(task_results'))
       ELSE /\ group_idx' = group_idx + 1
            /\ UNCHANGED <<current_step, graph_node, path>>
            /\ Written(<<runs[1].result>>)
    /\ UNCHANGED <<intents, dependency_graph, execution_plan, parallel_groups,
                   rvars, tasks, semaphore, processed_results, StoreRuns, cvars, retry_count,
                   failed_tasks, recovery_strategy, final_result, report>>

\* _error_handling_node
ErrorHandlingNode ==
    /\ graph_node = "error_handling"
    /\ failed_tasks' = {id \in DOMAIN task_results : task_results[id].status = "failed"}
    /\ retry_count' = retry_count + 1
    /\ recovery_strategy' = _analyze_failures(task_results, failed_tasks')
    /\ current_step' = "error_handled"
    /\ Assigned
    /\ Goto(AfterErrorHandling(retry_count', failed_tasks', task_results))
    /\ UNCHANGED <<intents, dependency_graph, execution_plan, parallel_groups,
                   rvars, pvars, group_idx, StoreRuns, cvars, final_result, report>>

\* _result_aggregation_node; _create_session_summary divides by the number
\* of results
ResultAggregationNode ==
    /\ graph_node = "result_aggregation"
    /\ IF DOMAIN task_results = {}
       THEN /\ Goto("raised")
            /\ UNCHANGED <<current_step, final_result, active_sessions>>
       ELSE /\ LET completed == {id \in DOMAIN task_results :
                                    task_results[id].status = "completed"}
               IN final_result' =
                     [total_tasks |-> Cardinality(DOMAIN task_results),
                      completed_tasks |-> Cardinality(completed),
                      failed_tasks |-> Cardinality(DOMAIN task_results) - Cardinality(completed),
                      built |-> TRUE]
            /\ current_step' = "aggregated"
            /\ active_sessions' = SameObject(active_sessions, current_step')
            /\ Goto("self_reflection")
    /\ UNCHANGED <<intents, dependency_graph, execution_plan, parallel_groups,
                   rvars, pvars, wvars, StoreRuns, cvars, last_call, retry_count,
                   failed_tasks, recovery_strategy,
                   report>>

\* _self_reflection_node
SelfReflectionNode ==
    /\ graph_node = "self_reflection"
    /\ \E ok \in BOOLEAN :
          /\ agent_metrics' = update_agent_metrics(agent_metrics, "self_reflection", ok)
          /\ current_step' = "reflected"
          /\ Written(<<IF ok THEN Completed(SelfReflectionKey)
                       ELSE Failed(SelfReflectionKey, max_retries)>>)
    /\ Goto("notification")
    /\ UNCHANGED <<intents, dependency_graph, execution_plan, parallel_groups, max_retries,
                   runs, history, calls, pvars, group_idx, StoreRuns, cvars, retry_count,
                   failed_tasks, recovery_strategy, final_result, report>>

\* _notification_node
NotificationNode ==
    /\ graph_node = "notification"
    /\ \E ok \in BOOLEAN :
          /\ agent_metrics' = update_agent_metrics(agent_metrics, "discord_agent", ok)
          /\ report' = _send_completion_summary(final_result, ok)
          /\ current_step' = "completed"
          /\ Written(<<IF ok THEN Completed(NotificationKey)
                       ELSE Failed(NotificationKey, max_retries)>>)
    /\ Goto("END")
    /\ UNCHANGED <<intents, dependency_graph, execution_plan, parallel_groups, max_retries,
                   runs, history, calls, pvars, group_idx, StoreRuns, cvars, retry_count,
                   failed_tasks, recovery_strategy, final_result>>

\* graph.ainvoke has returned: process_message closes the session
SessionClosed ==
    /\ graph_node = "END"
    /\ graph_node' = "closed"
    /\ active_sessions' = close_session(active_sessions, Sid)
    /\ last_call' = Call("close_session", Sid, Bool(HasSession(active_sessions, Sid)),
                         {Sid} \cap DOMAIN active_sessions)
    /\ UNCHANGED <<dvars, rvars, pvars, wvars, StoreRuns, cvars, path, retry_count,
                   failed_tasks, recovery_strategy,
                   final_result, report>>

\* the first pass of a decomposed session through parallel_execution
NextWorkflow ==
    \/ TaskDecompositionNode
    \/ ExecuteGroup
    \/ \E i \in DOMAIN runs : Acquire(i)
    \/ \E i \in DOMAIN runs : ParExecutorEnds(i)
    \/ GroupReturns

SpecWorkflow == InitWorkflow /\ [][NextWorkflow]_vars

\* the steps of process_message and of the graph it runs
RunSteps ==
    \/ IntentAnalysisNode
    \/ TaskDecompositionNode
    \/ ExecuteGroup
    \/ \E i \in DOMAIN runs : Acquire(i)
    \/ \E i \in DOMAIN runs : ParExecutorEnds(i)
    \/ GroupReturns
    \/ NoGroups
    \/ ExecuteIntent
    \/ IntentExecutorEnds
    \/ IntentReturns
    \/ ErrorHandlingNode
    \/ ResultAggregationNode
    \/ SelfReflectionNode
    \/ NotificationNode
    \/ SessionClosed

\* process_message from the creation of the session to its end
SpecGraph == InitGraph /\ [][RunSteps]_vars

\* every executor ends its attempt and the event loop runs what is ready
SpecGraphFair == SpecGraph /\ WF_vars(RunSteps)

InFlight == graph_node \notin {"END", "closed", "raised"}

\* another caller closes the session of the run while the run is under way
SessionClosedInFlight ==
    /\ InFlight
    /\ HasSession(active_sessions, Sid)
    /\ active_sessions' = close_session(active_sessions, Sid)
    /\ last_call' = Call("close_session", Sid, "True", {Sid})
    /\ UNCHANGED StoreUntouched

\* a sweep finds the session of the run expired
SessionSweptInFlight ==
    /\ InFlight
    /\ Expired(active_sessions, now, variant) # {}
    /\ \E t \in DOMAIN cleanup_tasks : Sweep(t)

\* the first pass through parallel_execution, the session being closed by
\* another caller at any moment
NextWorkflowClosing ==
    \/ NextWorkflow
    \/ SessionClosedInFlight

SpecWorkflowClosing == InitWorkflow /\ [][NextWorkflowClosing]_vars

\* the run, its session being closed by another caller at any moment
NextRunClosing ==
    \/ RunSteps
    \/ SessionClosedInFlight

SpecRunClosing == InitGraph /\ [][NextRunClosing]_vars

\* the run, its session being closed or swept while it is under way
NextFlight ==
    \/ RunSteps
    \/ SessionClosedInFlight
    \/ Tick
    \/ SessionSweptInFlight

SpecFlight == InitGraph /\ [][NextFlight]_vars /\ WF_vars(RunSteps)

----------------------------------------------------------------------------
(* Properties of the decomposition *)

Decomposed == current_step = "decomposed"

TaskIds == {intents[i].task_id : i \in 1..Len(intents)}

SeqToSet(s) == {s[i] : i \in 1..Len(s)}

PositionsOf(x, s) == {i \in 1..Len(s) : s[i] = x}

\* the in-graph dependencies of a task, as a set
InGraphDeps(graph, t) == SeqToSet(GraphGet(graph, t)) \cap GraphKeys(graph)

RECURSIVE Ancestors(_, _, _)

\* every task reachable from the tasks of `frontier` along dependency entries
Ancestors(graph, frontier, seen) ==
    LET next == UNION {InGraphDeps(graph, t) : t \in frontier} \ seen IN
    IF next = {} THEN seen ELSE Ancestors(graph, next, seen \cup next)

\* the tasks t depends on, directly or transitively
DependsOn(graph, t) == Ancestors(graph, {t}, {})

GroupTaskIds(group) == {group[k].task_id : k \in 1..Len(group)}

\* C3: every task of the plan comes after each of its dependencies that is a
\* key of the dependency graph.
PlanIsTopologicalOrder ==
    Decomposed =>
        \A k \in 1..Len(execution_plan) :
            \A dep \in InGraphDeps(dependency_graph, execution_plan[k]) :
                \E j \in 1..(k - 1) : execution_plan[j] = dep

\* a plan in which a task with two in-graph dependencies was scheduled
PlanOrdersDependentTask ==
    /\ Decomposed
    /\ \E k \in 1..Len(execution_plan) :
          Cardinality(InGraphDeps(dependency_graph, execution_plan[k])) = 2

\* C4: every batch holds one to three tasks, no two of them of one service, and
\* two tasks conflict exactly when their services are the same.
BatchesBoundedAndConflictFree ==
    /\ Decomposed =>
          \A g \in 1..Len(parallel_groups) :
              /\ Len(parallel_groups[g]) >= 1
              /\ Len(parallel_groups[g]) <= 3
              /\ \A a, b \in 1..Len(parallel_groups[g]) :
                    a # b => parallel_groups[g][a].task_id[1] # parallel_groups[g][b].task_id[1]
    /\ \A t1, t2 \in TaskIds : _has_conflict(t1, t2) <=> (t1[1] = t2[1])

\* a batch closed because it was full: the task after it conflicts with none of it
BatchClosedFull ==
    /\ Decomposed
    /\ \E g \in 1..(Len(parallel_groups) - 1) :
          /\ Len(parallel_groups[g]) = 3
          /\ parallel_groups[g + 1][1].task_id[1] \notin
                {parallel_groups[g][k].task_id[1] : k \in 1..3}

\* three intents of pairwise different services, the third depending on the
\* first two and on nothing else
IsScenarioB ==
    /\ Len(intents) = 3
    /\ Cardinality({intents[i].type : i \in 1..3}) = 3
    /\ intents[1].dependencies = <<>>
    /\ intents[2].dependencies = <<>>
    /\ SeqToSet(intents[3].dependencies) = {intents[1].task_id, intents[2].task_id}
    /\ Len(intents[3].dependencies) = 2

\* C2: no batch holds a task together with a task it depends on; scenario B
\* gives the plan A, B, C (A and B in either order) in two batches, {A, B} then {C}.
NoBatchHoldsTaskAndDependency ==
    Decomposed =>
        /\ \A g \in 1..Len(parallel_groups) :
              \A t \in GroupTaskIds(parallel_groups[g]) :
                  DependsOn(dependency_graph, t) \cap GroupTaskIds(parallel_groups[g]) = {}
        /\ IsScenarioB =>
              /\ Len(execution_plan) = 3
              /\ execution_plan[3] = intents[3].task_id
              /\ Len(parallel_groups) = 2
              /\ GroupTaskIds(parallel_groups[1]) = {intents[1].task_id, intents[2].task_id}
              /\ GroupTaskIds(parallel_groups[2]) = {intents[3].task_id}

----------------------------------------------------------------------------
(* Properties of one execute_agent call *)

TheRun == runs[1]

RunOfExecutor == Len(runs) = 1 /\ TheRun.agent \in RegisteredAgents

Returned == Len(runs) = 1 /\ TheRun.pc = "done"

AttemptFailed(h) == h.kind = "raise" \/ h.status = "failed"

AllAttemptsFailed ==
    /\ Len(history) = max_retries + 1
    /\ \A k \in 1..Len(history) : AttemptFailed(history[k])

LastAttempt == history[Len(history)]

\* C5: a run calls the executor at most max_retries + 1 times (4 with the default);
\* the returned retry_count is the number of calls minus one, so at most
\* max_retries; failed, failed, completed gives completed with retry_count 2.
RetriesBounded ==
    RunOfExecutor =>
        /\ TheRun.invocations <= max_retries + 1
        /\ Len(history) <= max_retries + 1
        /\ max_retries = DefaultMaxRetries => TheRun.invocations <= 4
        /\ Returned =>
              /\ TheRun.result.retry_count = Len(history) - 1
              /\ TheRun.result.retry_count = TheRun.invocations - 1
              /\ TheRun.result.retry_count <= max_retries
        /\ (/\ Returned
            /\ Len(history) = 3
            /\ history[1].status = "failed"
            /\ history[2].status = "failed"
            /\ history[3].status = "completed")
           => /\ TheRun.result.status = "completed"
              /\ TheRun.result.retry_count = 2

\* the default bound, two failed attempts, then a completed one
FailedTwiceThenCompleted ==
    /\ RunOfExecutor
    /\ Returned
    /\ max_retries = DefaultMaxRetries
    /\ Len(history) = 3
    /\ history[1].status = "failed"
    /\ history[2].kind = "raise"
    /\ history[3].status = "completed"
    /\ TheRun.result.retry_count = 2

\* C6 as stated: when all max_retries + 1 attempts fail, the result is the
\* synthetic one: failed, retry_count = max_retries, error "Max retries
\* exceeded. Last error: " followed by the error of the last attempt.
ExhaustedRunReturnsSyntheticResult ==
    (RunOfExecutor /\ Returned /\ AllAttemptsFailed) =>
        TheRun.result = MaxRetriesExceeded(TheRun.task_id, LastAttempt.error, max_retries)

\* C6 amended: when all max_retries + 1 attempts fail, the result is failed
\* with retry_count = max_retries and carries the error of the last attempt:
\* behind "Max retries exceeded. Last error: " when the last attempt raised,
\* as the executor's own error string when the last attempt returned failed.
ExhaustedRunReturnsLastError ==
    (RunOfExecutor /\ Returned /\ AllAttemptsFailed) =>
        /\ TheRun.result.status = "failed"
        /\ TheRun.result.retry_count = max_retries
        /\ TheRun.result.error.msg = LastAttempt.error.msg
        /\ TheRun.result.error.prefix =
              (IF LastAttempt.kind = "raise"
               THEN "Max retries exceeded. Last error: " ELSE "")

\* every attempt failed, with different errors, the last one by a returned result
ExhaustedByReturnedFailure ==
    /\ RunOfExecutor
    /\ Returned
    /\ AllAttemptsFailed
    /\ max_retries = DefaultMaxRetries
    /\ LastAttempt.kind = "return"
    /\ history[Len(history) - 1].kind = "raise"
    /\ history[Len(history) - 1].error # LastAttempt.error

\* C7: an exception of the executor never leaves execute_agent: before the
\* last attempt the run goes on to the next attempt, and on the last attempt
\* the caller gets a failed result that carries the exception's message.
ExceptionsBecomeFailedResults ==
    RunOfExecutor =>
        /\ TheRun.pc \in {"idle", "attempting", "done"}
        /\ (history # <<>> /\ LastAttempt.kind = "raise") =>
              IF Len(history) <= max_retries
              THEN /\ TheRun.pc = "attempting"
                   /\ TheRun.attempt = Len(history)
                   /\ TheRun.invocations = Len(history) + 1
              ELSE /\ TheRun.pc = "done"
                   /\ TheRun.result.status = "failed"
                   /\ TheRun.result.error.msg = LastAttempt.error.msg
                   /\ TheRun.result.task_id = TheRun.task_id

\* the executor raised on an earlier attempt and again on the last one
RaisedOnRetryAndOnLastAttempt ==
    /\ RunOfExecutor
    /\ Returned
    /\ max_retries >= 1
    /\ Len(history) = max_retries + 1
    /\ history[1].kind = "raise"
    /\ LastAttempt.kind = "raise"
    /\ history[1].error # LastAttempt.error

\* C8: a name that is not registered (the decomposer's unknown_agent among
\* them) is answered with a failed result at once: no call of an executor, no
\* wait, no retry, and the metrics map as it was.
UnknownAgentFailsAtOnce ==
    /\ _get_agent_name(<<"sms", 1>>) = "unknown_agent"
    /\ "unknown_agent" \notin RegisteredAgents
    /\ [][(calls' = calls + 1 /\ runs'[1].agent \notin RegisteredAgents) =>
            /\ runs'[1].pc = "done"
            /\ runs'[1].result = AgentNotFound(runs'[1].task_id, runs'[1].agent)
            /\ runs'[1].result.status = "failed"
            /\ runs'[1].invocations = 0
            /\ runs'[1].waits = <<>>
            /\ history' = <<>>
            /\ agent_metrics' = agent_metrics]_vars

\* unknown_agent was called after an executor had been run and counted
UnknownAgentCalledAfterARun ==
    /\ Len(runs) = 1
    /\ TheRun.agent = "unknown_agent"
    /\ TheRun.pc = "done"
    /\ calls = 2
    /\ DOMAIN agent_metrics # {}

----------------------------------------------------------------------------
(* Properties of one execute_parallel call *)

\* C9: while execute_parallel runs, at most 5 runs (attempts, retries and
\* backoff waits included) are in progress; the semaphore counts the free
\* slots, and a waiting task is let in only when a slot is free.
AtMostFiveRunsInProgress ==
    /\ [](pc = "gathering" =>
            /\ Cardinality(InProgress) <= 5
            /\ semaphore = 5 - Cardinality(InProgress))
    /\ [][pc = "gathering" /\ pc' = "gathering" =>
            \A i \in DOMAIN runs :
                (runs[i].pc = "idle" /\ runs'[i].pc # "idle") =>
                    /\ Cardinality(InProgress) < 5
                    /\ Cardinality({j \in DOMAIN runs : runs'[j].pc = "attempting"}) <= 5]_vars

\* five runs in progress, one of them in a retry, and a task waiting for a slot
FiveInProgressOneWaiting ==
    /\ pc = "gathering"
    /\ Cardinality(InProgress) = 5
    /\ semaphore = 0
    /\ Waiting # {}
    /\ \E i \in InProgress : runs[i].attempt >= 1

\* C10: execute_parallel returns a list with one Execution Result per entry,
\* result i being the result of the run of entry i (the failed "not found"
\* result for an unknown name); a step of one entry's run changes no other
\* entry's run, and a finished run keeps its result.
OneResultPerEntryInOrder ==
    /\ [](pc \in {"idle", "gathering", "returned"})
    /\ [](pc = "returned" =>
            /\ Len(processed_results) = Len(tasks)
            /\ \A i \in DOMAIN tasks :
                  /\ processed_results[i].task_id = tasks[i].task_id
                  /\ processed_results[i] = runs[i].result
                  /\ processed_results[i].status \in {"completed", "failed"}
                  /\ tasks[i].agent \notin RegisteredAgents =>
                        processed_results[i] = AgentNotFound(tasks[i].task_id, tasks[i].agent))
    /\ [][pc = "gathering" /\ pc' = "gathering" =>
            \A j \in DOMAIN runs :
                /\ runs[j].pc = "done" => runs'[j] = runs[j]
                /\ runs'[j] # runs[j] => \A k \in DOMAIN runs \ {j} : runs'[k] = runs[k]]_vars

\* a returned batch with an unknown name, a run that ended by an exception,
\* a run that returned failed, and a completed run behind them
ReturnedBatchWithFailuresAndSuccess ==
    /\ pc = "returned"
    /\ Len(tasks) >= 4
    /\ tasks[1].agent = "unknown_agent"
    /\ processed_results[2].error.prefix = "Max retries exceeded. Last error: "
    /\ processed_results[3].status = "failed"
    /\ processed_results[3].error.prefix = ""
    /\ processed_results[4].status = "completed"

----------------------------------------------------------------------------
(* Properties of a session on the complex path *)

Terminal(r) == r.status \in {"completed", "failed"}

\* the tasks of the batch under way whose executor has been started
StartedInBatch ==
    IF pc = "gathering" THEN {i \in DOMAIN runs : runs[i].invocations >= 1} ELSE {}

\* C1: the executor of a task is started only when every in-graph dependency
\* of the task has a terminal (completed or failed) result in task_results.
DependenciesFinishedBeforeStart ==
    \A i \in StartedInBatch :
        \A d \in InGraphDeps(dependency_graph, tasks[i].task_id) :
            /\ d \in DOMAIN task_results
            /\ Terminal(task_results[d])

----------------------------------------------------------------------------
(* Properties of the session store *)

\* C11: once a stop() call has returned (and start() was not called again),
\* no sweep of the session store runs, whatever start() and stop() calls
\* were made before.
NoSweepAfterStop == ~swept_after_stop

SweepStep ==
    LET ttl == IF variant = "integrated" THEN 24 ELSE 12 IN
    (last_call' # last_call /\ last_call'.op = "_cleanup_old_sessions") =>
        /\ DOMAIN active_sessions' =
              {sid \in DOMAIN active_sessions : ~(active_sessions[sid].updated_at < now - ttl)}
        /\ \A sid \in DOMAIN active_sessions' : active_sessions'[sid] = active_sessions[sid]
        /\ \A sid \in DOMAIN active_sessions :
              now - active_sessions[sid].updated_at <= ttl => sid \in DOMAIN active_sessions'
        /\ agent_metrics' = agent_metrics

WriteStep ==
    (/\ last_call' # last_call
     /\ last_call'.op \in {"update_session", "add_execution_result"}
     /\ last_call'.returned = "True") =>
        active_sessions'[last_call'.session_id].updated_at = now

\* C12: a sweep removes exactly the sessions whose updated_at is before now
\* minus the time-to-live (24 hours in the integrated variant, 12 in the
\* other) and changes no other session and no metrics; a successful
\* update_session or add_execution_result sets updated_at to now, so a
\* session written to within the time-to-live outlives every sweep.
SweepRemovesExactlyTheExpired == [][SweepStep /\ WriteStep]_vars

\* a sweep has just taken a session that was too old and kept one that is
\* exactly as old as the time-to-live, the metrics holding an entry
SweepTookOneAndKeptOneAtCutoff ==
    /\ last_call.op = "_cleanup_old_sessions"
    /\ last_call.removed # {}
    /\ \E sid \in DOMAIN active_sessions :
          now - active_sessions[sid].updated_at = TTLHours(variant)
    /\ DOMAIN agent_metrics # {}

UnknownIdCall ==
    /\ last_call' # last_call
    /\ last_call'.session_id \notin DOMAIN active_sessions

UnknownIdStep ==
    /\ (UnknownIdCall /\ last_call'.op \in
            {"update_session", "add_execution_result", "close_session"}) =>
          /\ last_call'.returned = "False"
          /\ active_sessions' = active_sessions
          /\ agent_metrics' = agent_metrics
    /\ (UnknownIdCall /\ last_call'.op = "get_session") =>
          /\ last_call'.returned = "None"
          /\ active_sessions' = active_sessions
          /\ agent_metrics' = agent_metrics

\* C13: update_session, add_execution_result and close_session called with
\* an id that is not in the store return False and leave the sessions and the
\* metrics as they were; get_session returns None for such an id.
UnknownSessionIsANoOp == [][UnknownIdStep]_vars

\* add_execution_result for an id that is not in a store holding another
\* session and metrics
ResultForUnknownSessionRefused ==
    /\ last_call.op = "add_execution_result"
    /\ last_call.returned = "False"
    /\ last_call.session_id \notin DOMAIN active_sessions
    /\ DOMAIN active_sessions # {}
    /\ DOMAIN agent_metrics # {}

----------------------------------------------------------------------------
(* Properties of the metrics *)

\* the runs of executor a that have returned
FinishedRuns(a) ==
    {i \in DOMAIN runs : runs[i].pc = "done" /\ runs[i].agent = a /\ a \in RegisteredAgents}

\* C15: whatever the interleaving of the concurrent runs, the metrics of an
\* executor are updated once per finished run and not once per attempt:
\* total_executions = successful_executions + failed_executions = the number
\* of finished runs, the successful ones being those that ended completed.
MetricsCountFinishedRuns ==
    \A a \in CallableAgents \cup RegisteredAgents :
        LET done == FinishedRuns(a)
            ok == {i \in done : runs[i].result.status = "completed"}
        IN IF done = {}
           THEN a \notin DOMAIN agent_metrics
           ELSE /\ a \in DOMAIN agent_metrics
                /\ agent_metrics[a].total_executions = Cardinality(done)
                /\ agent_metrics[a].successful_executions = Cardinality(ok)
                /\ agent_metrics[a].failed_executions = Cardinality(done \ ok)
                /\ agent_metrics[a].total_executions =
                      agent_metrics[a].successful_executions + agent_metrics[a].failed_executions

\* two runs of one executor finished while a third is still in progress: one
\* completed on its second attempt, one failed
RetriedRunAndFailedRunCounted ==
    /\ pc = "gathering"
    /\ \E i, j \in FinishedRuns("notion_agent") :
          /\ runs[i].result.status = "completed"
          /\ runs[i].invocations >= 2
          /\ runs[j].result.status = "failed"
    /\ InProgress # {}

----------------------------------------------------------------------------
(* Properties of the workflow run *)

SessionGone == ~HasSession(active_sessions, Sid)

\* a step taken when the session is not in the store
GoneStep ==
    SessionGone =>
        /\ ~HasSession(active_sessions', Sid)
        /\ task_results' = task_results
        /\ (/\ last_call'.op \in {"add_execution_result", "update_session"}
            /\ last_call'.session_id = Sid) => last_call'.returned = "False"

RunCompleted ==
    /\ graph_node \in {"END", "closed"}
    /\ current_step = "completed"
    /\ "notification" \in {path[k] : k \in DOMAIN path}

\* C14: when the session is closed or swept while its run is under way, every
\* later add_execution_result or update_session for it returns False and does
\* not put the session back, and the run still reaches its last step without
\* raising.
RunOutlivesItsSession ==
    /\ [][GoneStep]_vars
    /\ [](graph_node # "raised")
    /\ ((SessionGone /\ InFlight) ~> RunCompleted)

\* the run is over; its session was taken from the store after intent
\* analysis had stored its result, and the later results were refused
RunEndedWithoutItsSession ==
    /\ graph_node = "END"
    /\ current_step = "completed"
    /\ SessionGone
    /\ last_call = Call("add_execution_result", Sid, "False", {})
    /\ IntentAnalysisKey \in DOMAIN task_results
    /\ NotificationKey \notin DOMAIN task_results
    /\ "parallel_execution" \in {path[k] : k \in DOMAIN path}

ErrorHandlingEntries == Cardinality({k \in DOMAIN path : path[k] = "error_handling"})

\* C16: every run ends: whatever the intents and whatever the executors do
\* (success, failure, exception, unknown executor), the run reaches the
\* notification and ends with current_step = completed without raising, and
\* it enters error_handling 2 times at most.
RunTerminatesWithinTwoErrorHandlings ==
    /\ [](ErrorHandlingEntries <= 2 /\ graph_node # "raised")
    /\ <>[]RunCompleted

\* a run that went through error_handling twice and is over, one task having
\* no executor and one having an executor that raised on every attempt
EndedAfterTwoErrorHandlings ==
    /\ graph_node = "closed"
    /\ current_step = "completed"
    /\ ErrorHandlingEntries = 2
    /\ \E a, b \in DOMAIN task_results :
          /\ task_results[a].error.prefix = "Agent not found"
          /\ task_results[b].error.prefix = "Max retries exceeded. Last error: "

IntentResults == {intents[i].task_id : i \in DOMAIN intents} \cap DOMAIN task_results

\* C17: the aggregate of a session counts the task intents of the session and
\* nothing else: total_tasks is the number of executed tasks, completed_tasks
\* the number of them that completed; a single intent without dependencies
\* whose executor succeeds aggregates to total 1, completed 1, failed 0.
AggregateCountsTheTasks ==
    final_result.built =>
        /\ final_result.total_tasks = Cardinality(IntentResults)
        /\ final_result.completed_tasks =
              Cardinality({id \in IntentResults : task_results[id].status = "completed"})
        /\ final_result.failed_tasks =
              Cardinality({id \in IntentResults : task_results[id].status # "completed"})

\* every task of the session has failed, no executor run has completed, and
\* error_handling has used up its retries
AllTasksFailedRetriesExhausted ==
    /\ Len(intents) > 0
    /\ retry_count = 2
    /\ graph_node \notin {"END", "closed"}
    /\ \A i \in DOMAIN intents :
          /\ intents[i].task_id \in DOMAIN task_results
          /\ task_results[intents[i].task_id].status = "failed"
    /\ \A a \in {"notion_agent", "discord_agent"} :
          a \in DOMAIN agent_metrics => agent_metrics[a].successful_executions = 0

\* C18: when every task of the session fails on every attempt and the two
\* workflow-level retries are used up, the results are evaluated as
\* complete_failure and error_handling routes to the notification, not to
\* result_aggregation; no aggregate with completed tasks is reported.
TotalFailureGoesToNotification ==
    AllTasksFailedRetriesExhausted =>
        /\ _check_execution_results(task_results) = "complete_failure"
        /\ "result_aggregation" \notin {path[k] : k \in DOMAIN path}
        /\ ~final_result.built

\* C19: with no intent after intent analysis the session takes the error
\* branch and reaches the notification at once: between the error branch and
\* the notification no execution node and no aggregation is entered, and the
\* report is a failure report.
NoIntentsGoesStraightToNotification ==
    (Len(path) >= 2 /\ path[2] = "error_handling") =>
        /\ \A k \in DOMAIN path :
              path[k] \notin {"sequential_execution", "parallel_execution", "result_aggregation"}
        /\ report.sent => report.completed_tasks = 0

StatusStep ==
    \A id \in DOMAIN task_results :
        Terminal(task_results[id]) =>
            /\ id \in DOMAIN task_results'
            /\ task_results'[id].status = task_results[id].status

\* C20: the status recorded for a task is final: once task_results[task_id]
\* is completed or failed, no later step of the run, workflow-level retries
\* included, changes it.
RecordedStatusIsFinal == [][StatusStep]_vars

\* C21: whenever a session reaches the step completed, its context holds the
\* final aggregate (final_result with its counts), whatever the outcome,
\* total failure included.
CompletedSessionHasAggregate ==
    current_step = "completed" => final_result.built

\* the number of times error_handling has been entered up to place k of the path
EntriesUpTo(k) == Cardinality({j \in 1..k : path[j] = "error_handling"})

\* the execution node of the path intent analysis has chosen for the session
OwnExecutionNode ==
    IF path[2] = "sequential_execution" THEN "sequential_execution" ELSE "parallel_execution"

\* C22: after error_handling with the retry counter below 2 the session goes
\* back to the execution node of its own path: sequential_execution for a
\* session of the simple path, parallel_execution for one of the complex path.
RetryGoesBackToOwnExecutionNode ==
    \A k \in 1..(Len(path) - 1) :
        (/\ path[k] = "error_handling"
         /\ EntriesUpTo(k) < 2
         /\ path[2] \in {"sequential_execution", "task_decomposition"})
            => path[k + 1] = OwnExecutionNode

\* some task of the session has a completed result
SomeTaskSucceeded ==
    \E id \in IntentResults : task_results[id].status = "completed"

\* a step of error_handling that leaves the retry counter at 2
ExhaustedRoutingStep ==
    (graph_node = "error_handling" /\ graph_node' # "error_handling" /\ retry_count' = 2)
        => /\ graph_node' \in {"result_aggregation", "notification"}
           /\ graph_node' = "result_aggregation" <=> SomeTaskSucceeded

\* C23: once the retry counter has reached 2, error_handling routes to
\* result_aggregation exactly when some task of the session has a completed
\* result, and to the notification otherwise.
ExhaustedRetriesRouteOnTaskSuccess == [][ExhaustedRoutingStep]_vars

\* the result maps of at most three entries, each completed or failed
ResultMaps ==
    UNION {[S -> {"completed", "failed"}] :
              S \in SUBSET {IntentAnalysisKey, <<"notion", 1>>, <<"discord", 2>>}}

ResultsOf(statuses) ==
    [id \in DOMAIN statuses |->
        IF statuses[id] = "completed" THEN Completed(id) ELSE Failed(id, DefaultMaxRetries)]

AllCompleted(tr) == \A id \in DOMAIN tr : tr[id].status = "completed"

NoneCompleted(tr) == \A id \in DOMAIN tr : tr[id].status # "completed"

\* what the evaluation has to answer for the results tr
Classified(tr) ==
    /\ _check_execution_results(tr) \in {"success", "partial_failure", "complete_failure"}
    /\ DOMAIN tr = {} => _check_execution_results(tr) = "complete_failure"
    /\ (DOMAIN tr # {} /\ AllCompleted(tr)) => _check_execution_results(tr) = "success"
    /\ (~AllCompleted(tr) /\ ~NoneCompleted(tr))
           => _check_execution_results(tr) = "partial_failure"

ClassificationIsThreeWay ==
    /\ \A statuses \in ResultMaps : Classified(ResultsOf(statuses))
    /\ Classified(task_results)

\* a step that leaves an execution node
EvaluationStep ==
    (graph_node \in {"parallel_execution", "sequential_execution"} /\ graph_node' # graph_node)
        => /\ Classified(task_results')
           /\ graph_node' = IF _check_execution_results(task_results') = "success"
                            THEN "result_aggregation" ELSE "error_handling"
           /\ graph_node' = "result_aggregation" <=> AllCompleted(task_results')

\* C24: the evaluation of the recorded results always answers one of three
\* verdicts: complete_failure for no results, success when every result is
\* completed, partial_failure for a mix of completed and not completed; an
\* execution node is left for result_aggregation on success and for
\* error_handling on either failure.
ResultEvaluationClassifiesAndRoutes ==
    []ClassificationIsThreeWay /\ [][EvaluationStep]_vars

\* an execution node has been left for error_handling on a mix of results
EvaluatedAMix ==
    /\ \E k \in 1..(Len(path) - 1) :
          path[k] = "parallel_execution" /\ path[k + 1] = "error_handling"
    /\ \E a, b \in IntentResults :
          task_results[a].status = "completed" /\ task_results[b].status = "failed"

\* the tasks in the first k places of the plan
Planned(k) == {execution_plan[j] : j \in 1..k}

\* the tasks ready when the k-th task of the plan is appended
ReadyAt(k) ==
    {t \in GraphKeys(dependency_graph) \ Planned(k - 1) :
        InGraphDeps(dependency_graph, t) \subseteq Planned(k - 1)}

\* C25: every task of the plan had, when it was appended, the smallest
\* priority value (urgent 0, high 1, medium 2, low 3) of the tasks ready at
\* that step, the ready tasks being those not yet in the plan whose in-graph
\* dependencies are all in the plan already.
PlanTakesSmallestPriorityOfReady ==
    Decomposed =>
        \A k \in 1..Len(execution_plan) :
            \A t \in ReadyAt(k) :
                _get_priority_value(intents, execution_plan[k])
                    <= _get_priority_value(intents, t)

\* no intent lists the same dependency twice
NoRepeatedDependency ==
    \A i \in 1..Len(intents) :
        \A a, b \in 1..Len(intents[i].dependencies) :
            intents[i].dependencies[a] = intents[i].dependencies[b] => a = b

\* the place of the intent of task t in state.intents
ArrivalOf(t) == CHOOSE i \in 1..Len(intents) : intents[i].task_id = t

\* C26: among the ready tasks of equal priority the one whose intent was
\* declared first is appended first, however the task ids are spelled (checked
\* on the sessions in which no intent lists a dependency twice).
TiesBrokenByArrival ==
    (Decomposed /\ NoRepeatedDependency) =>
        \A k \in 1..Len(execution_plan) :
            \A t \in ReadyAt(k) :
                _get_priority_value(intents, t) = _get_priority_value(intents, execution_plan[k])
                    => ArrivalOf(execution_plan[k]) <= ArrivalOf(t)

\* C27: in the dependency graph the decomposer returns, whatever the intents
\* and whether a cycle was detected or not, every dependency listed for a task
\* is a key of the graph.
ReturnedGraphHasNoDanglingDependency ==
    Decomposed =>
        \A i \in 1..Len(dependency_graph) :
            SeqToSet(dependency_graph[i][2]) \subseteq GraphKeys(dependency_graph)

\* the graph built from the intents, before the cycle check
UnprunedGraph == RawGraph(intents, 1, <<>>)

\* some key of the graph depends on itself, directly or through other keys
HasDirectedCycle(graph) == \E t \in GraphKeys(graph) : t \in DependsOn(graph, t)

\* C28: the cycle check on the graph as built answers true exactly when some
\* task depends on itself along dependency entries between keys of the graph
\* (a self-dependency is such a cycle); entries naming absent ids never make
\* it answer true.
CycleCheckIsExact ==
    /\ _has_circular_dependency(UnprunedGraph) <=> HasDirectedCycle(UnprunedGraph)
    /\ Decomposed =>
          dependency_graph = IF HasDirectedCycle(UnprunedGraph)
                             THEN _resolve_circular_dependency(UnprunedGraph)
                             ELSE UnprunedGraph

\* a session with a cycle away from the first intent and a dangling entry,
\* which the detection caused to be pruned
CycleDetectedBesideDanglingEntry ==
    /\ Decomposed
    /\ HasDirectedCycle(UnprunedGraph)
    /\ ~Dfs(UnprunedGraph, UnprunedGraph[1][1], {}, {}).found
    /\ dependency_graph # UnprunedGraph

\* the tasks on a cycle of the graph or depending, directly or transitively,
\* on a task that is on one
BlockedByCycle(graph) ==
    {t \in GraphKeys(graph) :
        \E c \in DependsOn(graph, t) \cup {t} : c \in DependsOn(graph, c)}

\* C29: the decomposition ends without raising for every set of intents, a
\* cycle between keys included, and the plan lacks exactly the tasks on a
\* cycle or depending on one; zero intents give an empty plan and no groups.
PlanLacksExactlyTheCycleBound ==
    Decomposed =>
        /\ GraphKeys(dependency_graph) \ SeqToSet(execution_plan)
              = BlockedByCycle(dependency_graph)
        /\ SeqToSet(execution_plan) \subseteq GraphKeys(dependency_graph)
        /\ Len(intents) = 0 => (execution_plan = <<>> /\ parallel_groups = <<>>)

RECURSIVE SumSeq(_)

SumSeq(s) == IF s = <<>> THEN 0 ELSE Head(s) + SumSeq(Tail(s))

\* C30: the waits of a run are those of its retries only: none before the
\* first attempt, 2^k time units before the k-th retry (2, 4, 8 with the
\* default bound), 14 in all for a run that has used up the default retries.
BackoffIsExponentialOnRetries ==
    \A i \in DOMAIN runs :
        LET run == runs[i] IN
        /\ Len(run.waits) = IF run.invocations = 0 THEN 0 ELSE run.invocations - 1
        /\ \A k \in 1..Len(run.waits) : run.waits[k] = 2^k
        /\ (max_retries = DefaultMaxRetries /\ run.invocations = DefaultMaxRetries + 1)
               => SumSeq(run.waits) = 14

\* a run with the default bound that failed on every attempt and has returned
ExhaustedRunWaitedFourteen ==
    /\ max_retries = DefaultMaxRetries
    /\ runs[1].pc = "done"
    /\ runs[1].result.status = "failed"
    /\ runs[1].waits = <<2, 4, 8>>

----------------------------------------------------------------------------
(* Properties of concurrent execute_parallel calls *)

\* the executor runs outstanding in the two calls together
Outstanding == Cardinality(InProgress) + Cardinality(ConcurrentInProgress)

\* C31: the ceiling of 5 holds over all the execute_parallel calls under way
\* at the same time: never more than 5 executor runs are outstanding in the
\* two calls together.
CeilingIsGlobal == Outstanding <= SemaphoreLimit

----------------------------------------------------------------------------
(* Properties of the parallel node *)

\* execute_parallel has returned a result for every task of the group just run
PreviousGroupReturned ==
    /\ Len(processed_results) = Len(parallel_groups[group_idx])
    /\ \A k \in DOMAIN processed_results :
          /\ processed_results[k].task_id = parallel_groups[group_idx][k].task_id
          /\ processed_results[k].status \in {"completed", "failed"}

\* the results of the groups already run are in the session, and in the
\* store as long as the store holds the session
EarlierGroupsWritten ==
    \A g \in 1..group_idx : \A k \in DOMAIN parallel_groups[g] :
        LET id == parallel_groups[g][k].task_id IN
        /\ id \in DOMAIN task_results
        /\ task_results[id].status \in {"completed", "failed"}
        /\ HasSession(active_sessions, Sid) =>
              /\ id \in DOMAIN active_sessions[Sid].task_results
              /\ active_sessions[Sid].task_results[id] = task_results[id]

\* the parallel node starts a group that is not the first, or starts the
\* executor of one of its tasks
GroupStartStep ==
    /\ graph_node = "parallel_execution"
    /\ group_idx >= 1
    /\ \/ pc = "idle" /\ pc' = "gathering"
       \/ \E i \in DOMAIN runs : i \in DOMAIN runs' /\ runs[i].pc = "idle" /\ runs'[i].pc # "idle"

GroupsInOrderStep ==
    GroupStartStep =>
        /\ tasks' = parallel_groups[group_idx + 1]
        /\ pc = "idle" => PreviousGroupReturned
        /\ EarlierGroupsWritten

\* C32: the groups run in the order of the decomposer: no task of a group is
\* started before every task of the groups before it has returned its final
\* result and that result has been written to the session.
GroupsRunInOrder == [][GroupsInOrderStep]_vars

GroupsInOrderWhileStoredStep ==
    GroupStartStep =>
        /\ tasks' = parallel_groups[group_idx + 1]
        /\ pc = "idle" => PreviousGroupReturned
        /\ HasSession(active_sessions, Sid) => EarlierGroupsWritten

\* C32, amended: no task of a group is started before every task of the
\* groups before it has returned its final result; that result has been
\* written to the session if the session is still in the store, and refused
\* if the session was closed or swept in the meantime.
GroupsRunInOrderWhileStored == [][GroupsInOrderWhileStoredStep]_vars

\* the second group is running although the results of the first were
\* refused, the session having been taken from the store
SecondGroupRunsAfterRefusedWrite ==
    /\ graph_node = "parallel_execution"
    /\ group_idx = 1
    /\ InProgress # {}
    /\ SessionGone
    /\ parallel_groups[1][1].task_id \notin DOMAIN task_results

\* a step of error_handling
ErrorHandlingStep == graph_node = "error_handling" /\ graph_node' # "error_handling"

RecoverableBelowHalfStep ==
    ErrorHandlingStep =>
        (recovery_strategy'.recoverable
            <=> 2 * Cardinality(failed_tasks') < Cardinality(DOMAIN task_results))

\* C33: the recoverability flag error_handling computes is true exactly when
\* the failed tasks are fewer than half of the recorded results, odd totals
\* included (1 failed of 3 is recoverable).
RecoverableIffBelowHalf == [][RecoverableBelowHalfStep]_vars

----------------------------------------------------------------------------
(* Further properties of the decomposition *)

\* C34: when no task of the session depends on itself, directly or through
\* others, the plan is a permutation of the task ids of the session: every
\* task id is in it exactly once, repeated and dangling dependency entries
\* notwithstanding.
AcyclicPlanIsPermutation ==
    (Decomposed /\ ~HasDirectedCycle(UnprunedGraph)) =>
        /\ SeqToSet(execution_plan) = TaskIds
        /\ \A t \in TaskIds : Cardinality(PositionsOf(t, execution_plan)) = 1

RECURSIVE Concatenated(_)

\* the task ids of the groups, one group after the other
Concatenated(groups) ==
    IF groups = <<>> THEN <<>>
    ELSE [k \in DOMAIN Head(groups) |-> Head(groups)[k].task_id] \o Concatenated(Tail(groups))

\* C40: the groups are the plan cut into pieces: the groups put one after the
\* other give the plan, task by task in the same order, and no group is
\* empty; every planned task is in one group and one only.
GroupsPartitionThePlan ==
    Decomposed =>
        /\ Concatenated(parallel_groups) = execution_plan
        /\ \A g \in DOMAIN parallel_groups : Len(parallel_groups[g]) >= 1

\* a plan of four tasks cut into a group closed on a conflict and a group
\* closed when full
PlanOfFourCutInGroups ==
    /\ Decomposed
    /\ Len(execution_plan) = 4
    /\ Len(parallel_groups) >= 2
    /\ \E g \in DOMAIN parallel_groups : Len(parallel_groups[g]) = MaxGroupSize
    /\ \E g \in 1..(Len(parallel_groups) - 1) : Len(parallel_groups[g]) < MaxGroupSize

----------------------------------------------------------------------------
(* Further properties of the workflow run *)

Entered(n) == \E k \in DOMAIN path : path[k] = n

\* C35: on the complex path no intent is skipped: when the session has
\* entered result_aggregation every intent of it has a result recorded in
\* task_results, whatever the dependencies, cyclic ones included.
AggregationFindsEveryIntentRecorded ==
    (Entered("task_decomposition") /\ Entered("result_aggregation")) =>
        \A i \in DOMAIN intents : intents[i].task_id \in DOMAIN task_results

\* the executor of task id is invoked in this step
InvokedStep(id) ==
    \E i \in DOMAIN runs' :
        /\ runs'[i].pc = "attempting"
        /\ runs'[i].task_id = id
        /\ runs'[i].invocations = 1
        /\ (i \notin DOMAIN runs \/ runs[i].pc # "attempting")

NoCompletedTaskInvokedStep ==
    \A id \in DOMAIN task_results :
        task_results[id].status = "completed" => ~InvokedStep(id)

\* C36: a workflow-level retry invokes only the tasks that have not
\* completed: within one run the executor of a task whose recorded result is
\* completed is never invoked again.
CompletedTaskNeverInvokedAgain == [][NoCompletedTaskInvokedStep]_vars

----------------------------------------------------------------------------
(* Further properties of the executor runtime *)

\* C37: every result execute_agent hands back has a terminal status,
\* completed or failed: a pending, in_progress or cancelled status returned
\* by the executor is never the final result of the run.
ReturnedStatusIsTerminal ==
    \A i \in DOMAIN runs :
        runs[i].pc = "done" => runs[i].result.status \in {"completed", "failed"}

----------------------------------------------------------------------------
(* Further properties of the session store *)

\* C38: after any sequence of store calls (create_session, update_session
\* with fields of the session, add_execution_result, close_session, sweeps)
\* every session of the store is kept under the session_id it holds.
SessionsKeyedByTheirId ==
    \A sid \in DOMAIN active_sessions : active_sessions[sid].session_id = sid

\* a session that update_session has modified, after a call that named
\* session_id among the fields to set
UpdatedSessionAfterCallNamingSessionId ==
    /\ last_call.op = "update_session not entered"
    /\ \E sid \in DOMAIN active_sessions :
          /\ active_sessions[sid].current_step = "executed"
          /\ active_sessions[sid].task_results # <<>>

\* C39: result_aggregation is never entered with no recorded result: on
\* every path to it task_results is not empty, and the division by the number
\* of results in the session summary does not fail.
AggregationHasResults ==
    /\ graph_node = "result_aggregation" => DOMAIN task_results # {}
    /\ graph_node # "raised"

\* aggregation entered with the result of intent analysis as the only one,
\* the session having been closed before the task result could be stored
AggregationWithRouterResultOnly ==
    /\ graph_node = "result_aggregation"
    /\ SessionGone
    /\ DOMAIN task_results = {IntentAnalysisKey}
    /\ Len(intents) > 0

====
